---- MODULE Spec2Model ----
(***************************************************************************)
(* Broker request processing of charm-microceph (src/src/ceph_broker.py    *)
(* and the pool helpers of src/src/ceph.py).                               *)
(*                                                                         *)
(* One behaviour is one call of process_requests on one request envelope:  *)
(* the version check, the dispatch loop of process_requests_v1 with one    *)
(* step per operation handler, the exception boundary and the encoding of  *)
(* the response.  The storage cluster is the environment: every external   *)
(* command either succeeds (and has its effect on the cluster variables)   *)
(* or exits non-zero, chosen nondeterministically.                         *)
(***************************************************************************)
EXTENDS Integers, Sequences, FiniteSets, TLC

VARIABLES
    reqs,       \* the decoded request envelope (a dict)
    pc,         \* position inside process_requests
    idx,        \* index of the next operation of reqs["ops"] (1-based)
    ret,        \* process_requests_v1: value returned by the last handler
    exc,        \* the exception in flight, None when there is none
    invoked,    \* the handler calls so far, in order: [i |-> index of the
                \* operation, r |-> what the handler returned or raised]
    v1ret,      \* value returned by process_requests_v1
    resp,       \* dict returned by the undecorated process_requests
    out,        \* what the decorated process_requests hands to its caller
    cmds,       \* state-changing storage commands issued so far, with exit code
    pools,      \* cluster: names of the existing pools
    profiles,   \* cluster: erasure profile name -> parameters
    fsys,       \* cluster: filesystem name -> set of its data pools
    groups,     \* monitor config-key store: group name -> group record
    services,   \* monitor config-key store: service name -> service record
    keyring,    \* cluster: name of an auth entity -> its key
    cache,      \* the lru_cache of ceph_auth_get: name -> cached result
    default_caps, \* the module's _default_caps: subsystem and capabilities, in order
    relation_data, \* the ceph relation: unit -> its data bag
    processed   \* CephClientProvides._stored.processed

cluster == <<pools, profiles, fsys, groups, services>>
vars == <<reqs, pc, idx, ret, exc, invoked, v1ret, resp, out,
          cmds, pools, profiles, fsys, groups, services, keyring, cache, default_caps, relation_data, processed>>

(***************************************************************************)
(* Bounds of the model.                                                    *)
(***************************************************************************)
MaxOps == 2

(***************************************************************************)
(* Python values.  A dict is a function on its keys; None, and values      *)
(* whose Python type matters (int against str for the api version, str     *)
(* against bytes or an exception object for stderr), are tagged records.   *)
(***************************************************************************)
\* _default_caps as the module defines it
DefaultCaps ==
    <<[k |-> "mon", v |-> <<"allow r", "allow command \"osd blacklist\"",
                            "allow command \"osd blocklist\"">>],
      [k |-> "osd", v |-> <<"allow rwx">>]>>

None == [none |-> TRUE]
IntV(n) == [int |-> n]
StrV(s) == [str |-> s]
BytesV(s) == [bytes |-> s]
ExcV(e) == [exc |-> e]
JsonV(j) == [json |-> j]

Has(d, k) == k \in DOMAIN d

\* dict.get(k) for the string-valued keys of a request, rendered as str()
\* renders it: a missing key reads None.
GetStr(d, k) == IF Has(d, k) THEN d[k] ELSE "None"

\* str.format of an api-version value
FormatValue(v) ==
    IF v = None THEN "None"
    ELSE IF Has(v, "int") THEN ToString(v.int)
    ELSE v.str

ExitOk == ("exit-code" :> 0)
ExitError(msg) == ("exit-code" :> 1) @@ ("stderr" :> msg)

(***************************************************************************)
(* Exit codes of the external commands.  22 (EINVAL) is what "fs new"      *)
(* answers for a filesystem that already exists.                           *)
(***************************************************************************)
ExitCodes == {0, 1}
FsNewExitCodes == {0, 1, 22}

Cmd(c, a, rc) == [cmd |-> c, arg |-> a, rc |-> rc]

\* CalledProcessError.output of a failed check_output: the captured bytes
CapturedOutput(c) == BytesV("output of " \o c)

(***************************************************************************)
(* Requests.  Each operation tag comes with its parameters present         *)
(* ("full") and, where the handler tells the two apart, with only its tag  *)
(* ("bare").  The names are fixed: pools p, m, x exist before the envelope *)
(* arrives, pools r, e, q and the profile ec do not.                       *)
(***************************************************************************)
InitialPools == {"p", "m", "x"}

CreateReplicatedPool ==
    ("op" :> "create-pool") @@ ("name" :> "r") @@ ("replicas" :> 3)
CreateErasurePool ==
    ("op" :> "create-pool") @@ ("pool-type" :> "erasure") @@ ("name" :> "e")
        @@ ("erasure-profile" :> "ec")
CreateCephfs ==
    ("op" :> "create-cephfs") @@ ("mds_name" :> "fs") @@ ("data_pool" :> "p")
        @@ ("metadata_pool" :> "m") @@ ("extra_pools" :> <<"x">>)
CreateErasureProfile ==
    ("op" :> "create-erasure-profile") @@ ("name" :> "ec") @@ ("k" :> 2)
        @@ ("m" :> 1)
DeletePool == ("op" :> "delete-pool") @@ ("name" :> "p")
RenamePool == ("op" :> "rename-pool") @@ ("name" :> "p") @@ ("new-name" :> "q")
SnapshotPool ==
    ("op" :> "snapshot-pool") @@ ("name" :> "p") @@ ("snapshot-name" :> "s")
RemovePoolSnapshot ==
    ("op" :> "remove-pool-snapshot") @@ ("name" :> "p")
        @@ ("snapshot-name" :> "s")
SetPoolValue ==
    ("op" :> "set-pool-value") @@ ("name" :> "p") @@ ("key" :> "size")
        @@ ("value" :> 3)
RgwParams ==
    ("client-name" :> "rgw") @@ ("region-name" :> "reg") @@ ("zone-name" :> "z")
RgwRegionSet == ("op" :> "rgw-region-set") @@ ("region-json" :> "{}") @@ RgwParams
RgwZoneSet == ("op" :> "rgw-zone-set") @@ ("zone-json" :> "{}") @@ RgwParams
RgwRegionmapUpdate == ("op" :> "rgw-regionmap-update") @@ ("client-name" :> "rgw")
RgwRegionmapDefaultParams == ("rgw-region" :> "reg") @@ ("client-name" :> "rgw")
RgwCreateUser ==
    ("op" :> "rgw-create-user") @@ ("rgw-uid" :> "u") @@ ("display-name" :> "U")
        @@ ("client-name" :> "rgw")
MoveOsdToBucket == ("op" :> "move-osd-to-bucket") @@ ("osd" :> "osd.1") @@ ("bucket" :> "b")
AddPermissionsToKey ==
    ("op" :> "add-permissions-to-key") @@ ("name" :> "svc") @@ ("group" :> "g")
SetKeyPermissions ==
    ("op" :> "set-key-permissions") @@ ("client" :> "svc")
        @@ ("permissions" :> <<"osd", "allow rwx">>)
\* the request of TestBroker.test_create_cephfs_client
CreateCephfsClient ==
    ("op" :> "create-cephfs-client") @@ ("fs_name" :> "filesystem")
        @@ ("client_id" :> "fs-client") @@ ("path" :> "/") @@ ("perms" :> "rw")

\* The sixteen operation tags the specification lists as known.
KnownTags ==
    {"create-pool", "create-cephfs", "create-erasure-profile", "delete-pool",
     "rename-pool", "snapshot-pool", "remove-pool-snapshot", "set-pool-value",
     "rgw-region-set", "rgw-zone-set", "rgw-regionmap-update",
     "rgw-regionmap-default", "rgw-create-user", "move-osd-to-bucket",
     "add-permissions-to-key", "set-key-permissions"}

FullRequests ==
    {CreateReplicatedPool, CreateErasurePool, CreateCephfs, CreateErasureProfile,
     DeletePool, RenamePool, SnapshotPool, RemovePoolSnapshot, SetPoolValue,
     RgwRegionSet, RgwZoneSet, RgwRegionmapUpdate,
     ("op" :> "rgw-regionmap-default") @@ RgwRegionmapDefaultParams,
     ("op" :> "reg-regionmap-default") @@ RgwRegionmapDefaultParams,
     RgwCreateUser, MoveOsdToBucket, AddPermissionsToKey, SetKeyPermissions}

BareRequests ==
    {("op" :> t) : t \in {"create-pool", "create-cephfs", "delete-pool",
                          "rgw-region-set", "rgw-zone-set", "rgw-regionmap-update",
                          "reg-regionmap-default", "rgw-create-user",
                          "move-osd-to-bucket"}}

\* a tag nobody knows, a request without "op", and the test's client request
OtherRequests == {("op" :> "bogus"), <<>>, CreateCephfsClient}

Requests == FullRequests \cup BareRequests \cup OtherRequests

OpLists(n) == UNION {[1..k -> Requests] : k \in 0..n}

RequestIds == {<<>>, ("request-id" :> "r1")}

\* Envelopes of api version 1 carry every list of up to MaxOps requests.  An
\* envelope of another version, or without a version, is rejected before its
\* operations are read: one operation is enough there.
Envelopes ==
    {("api-version" :> IntV(1)) @@ ("ops" :> o) @@ r :
        o \in OpLists(MaxOps), r \in RequestIds}
    \cup {("api-version" :> IntV(1)) @@ r : r \in RequestIds}
    \cup {v @@ ("ops" :> o) @@ r :
            v \in {<<>>, ("api-version" :> IntV(0)), ("api-version" :> IntV(2)),
                   ("api-version" :> StrV("1"))},
            o \in OpLists(1), r \in RequestIds}

(***************************************************************************)
(* process_requests and process_requests_v1.                               *)
(***************************************************************************)
Op == reqs["ops"][idx]

\* op = req.get("op"), as "{}".format(op) renders it
Tag(req) == GetStr(req, "op")

BrokerJumpTable ==
    ("create-pool" :> "handle_create_pool")
    @@ ("create-cephfs" :> "handle_create_cephfs")
    @@ ("create-erasure-profile" :> "handle_create_erasure_profile")
    @@ ("delete-pool" :> "delete_pool")
    @@ ("rename-pool" :> "rename_pool")
    @@ ("snapshot-pool" :> "snapshot_pool")
    @@ ("remove-pool-snapshot" :> "remove_pool_snapshot")
    @@ ("set-pool-value" :> "handle_set_pool_value")
    @@ ("rgw-region-set" :> "handle_rgw_region_set")
    @@ ("rgw-zone-set" :> "handle_rgw_zone_set")
    @@ ("rgw-regionmap-update" :> "handle_rgw_regionmap_update")
    @@ ("reg-regionmap-default" :> "handle_rgw_regionmap_default")
    @@ ("rgw-create-user" :> "handle_rgw_create_user")
    @@ ("move-osd-to-bucket" :> "handle_put_osd_in_bucket")
    @@ ("add-permissions-to-key" :> "handle_add_permissions_to_key")
    @@ ("set-key-permissions" :> "handle_set_key_permissions")

\* fn = jump_table.get(op); a request without "op" looks up None
HasHandler(req) == Has(req, "op") /\ Has(BrokerJumpTable, req["op"])

\* the loop of process_requests_v1 is at a request that dispatches to fn
Dispatches(fn) ==
    /\ pc = "loop"
    /\ idx <= Len(reqs["ops"])
    /\ HasHandler(Op)
    /\ BrokerJumpTable[Op["op"]] = fn

\* a version check that also lets a newer version through
VersionSupported_AcceptsNewer(version) == version \in {IntV(1), IntV(2)}

VersionSupported(version) == version = IntV(1)

InvalidVersionMsg(version) ==
    "Missing or invalid api version (" \o FormatValue(version) \o ")"

UnknownOperationMsg(op) == "Unknown operation '" \o op \o "'"

\* "... while processing requests: %s" % reqs; the rendering of the envelope
\* is kept abstract
UnexpectedErrorMsg ==
    "Unexpected error occurred while processing requests: " \o "<reqs>"

\* if request_id: resp["request-id"] = request_id
EchoRequestId(r, q) ==
    IF Has(q, "request-id") /\ q["request-id"] # ""
    THEN ("request-id" :> q["request-id"]) @@ r
    ELSE r

\* a tail that hands back whatever the last handler returned
V1Result_Raw(r) == r

\* the tail of process_requests_v1
V1Result(r) == IF r # None /\ Has(r, "exit-code") THEN r ELSE ExitOk

\* json.dumps accepts str, int and JSON values; bytes and exception objects
\* make it raise TypeError
Encodable(r) ==
    \A k \in DOMAIN r :
        k \in {"stderr", "user"} => ~(Has(r[k], "bytes") \/ Has(r[k], "exc"))

Init ==
    /\ reqs \in Envelopes
    /\ pc = "start"
    /\ idx = 0
    /\ ret = None
    /\ exc = None
    /\ invoked = <<>>
    /\ v1ret = None
    /\ resp = None
    /\ out = None
    /\ keyring = <<>>
    /\ cache = <<>>
    /\ default_caps = DefaultCaps
    /\ relation_data = <<>>
    /\ processed = <<>>
    /\ cmds = <<>>
    /\ pools = InitialPools
    /\ profiles = <<>>
    /\ fsys = <<>>
    /\ groups = <<>>
    /\ services = <<>>

\* process_requests, version == 1: resp = process_requests_v1(reqs["ops"])
BeginV1 ==
    /\ pc = "start"
    /\ VersionSupported(IF Has(reqs, "api-version") THEN reqs["api-version"] ELSE None)
    /\ IF Has(reqs, "ops")
       THEN /\ pc' = "loop"
            /\ idx' = 1
            /\ ret' = None
            /\ exc' = exc
       ELSE /\ pc' = "raised"
            /\ exc' = ExcV("KeyError")
            /\ UNCHANGED <<idx, ret>>
    /\ UNCHANGED <<reqs, invoked, v1ret, resp, out, keyring, cache, default_caps, relation_data, processed, cmds>>
    /\ UNCHANGED cluster

\* process_requests, any other version
RejectVersion ==
    /\ pc = "start"
    /\ LET version == IF Has(reqs, "api-version") THEN reqs["api-version"] ELSE None
       IN  /\ ~VersionSupported(version)
           /\ resp' = EchoRequestId(ExitError(StrV(InvalidVersionMsg(version))), reqs)
    /\ pc' = "responded"
    /\ UNCHANGED <<reqs, idx, ret, exc, invoked, v1ret, out, keyring, cache, default_caps, relation_data, processed, cmds>>
    /\ UNCHANGED cluster

\* an unknown operation that is skipped instead of ending the envelope
UnknownOperation_Skips ==
    /\ pc = "loop"
    /\ idx <= Len(reqs["ops"])
    /\ ~HasHandler(Op)
    /\ idx' = idx + 1
    /\ UNCHANGED <<reqs, pc, ret, exc, invoked, v1ret, resp, out, keyring, cache, default_caps, relation_data, processed, cmds>>
    /\ UNCHANGED cluster

\* process_requests_v1: fn is None
UnknownOperation ==
    /\ pc = "loop"
    /\ idx <= Len(reqs["ops"])
    /\ ~HasHandler(Op)
    /\ v1ret' = ExitError(StrV(UnknownOperationMsg(Tag(Op))))
    /\ pc' = "v1_returned"
    /\ UNCHANGED <<reqs, idx, ret, exc, invoked, resp, out, keyring, cache, default_caps, relation_data, processed, cmds>>
    /\ UNCHANGED cluster

\* process_requests_v1: the list is exhausted
LoopDone ==
    /\ pc = "loop"
    /\ idx > Len(reqs["ops"])
    /\ v1ret' = V1Result(ret)
    /\ pc' = "v1_returned"
    /\ UNCHANGED <<reqs, idx, ret, exc, invoked, resp, out, keyring, cache, default_caps, relation_data, processed, cmds>>
    /\ UNCHANGED cluster

\* process_requests: process_requests_v1 returned
ReturnV1 ==
    /\ pc = "v1_returned"
    /\ resp' = EchoRequestId(v1ret, reqs)
    /\ pc' = "responded"
    /\ UNCHANGED <<reqs, idx, ret, exc, invoked, v1ret, out, keyring, cache, default_caps, relation_data, processed, cmds>>
    /\ UNCHANGED cluster

\* an exception boundary that lets the exception through to the caller
CatchException_Propagates ==
    /\ pc = "raised"
    /\ out' = exc
    /\ UNCHANGED <<keyring, cache, default_caps, relation_data, processed>>
    /\ pc' = "done"
    /\ UNCHANGED <<reqs, idx, ret, exc, invoked, v1ret, resp, cmds>>
    /\ UNCHANGED cluster

\* process_requests: except Exception
CatchException ==
    /\ pc = "raised"
    /\ resp' = ExitError(StrV(UnexpectedErrorMsg))
    /\ pc' = "responded"
    /\ UNCHANGED <<reqs, idx, ret, exc, invoked, v1ret, out, keyring, cache, default_caps, relation_data, processed, cmds>>
    /\ UNCHANGED cluster

\* decode_req_encode_rsp: json.dumps of the result
EncodeResponse ==
    /\ pc = "responded"
    /\ out' = IF Encodable(resp) THEN JsonV(resp) ELSE ExcV("TypeError")
    /\ UNCHANGED <<keyring, cache, default_caps, relation_data, processed>>
    /\ pc' = "done"
    /\ UNCHANGED <<reqs, idx, ret, exc, invoked, v1ret, resp, cmds>>
    /\ UNCHANGED cluster

(***************************************************************************)
(* How a handler ends: it returns r to the loop, or it raises e, which     *)
(* leaves process_requests_v1 and is caught by process_requests.           *)
(***************************************************************************)
\* a loop that stops at the first error result
Returns_FailFast(r) ==
    /\ ret' = r
    /\ invoked' = Append(invoked, [i |-> idx, r |-> r])
    /\ idx' = IF r # None /\ Has(r, "exit-code") /\ r["exit-code"] # 0
              THEN Len(reqs["ops"]) + 1
              ELSE idx + 1
    /\ pc' = "loop"
    /\ UNCHANGED <<reqs, exc, v1ret, resp, out, keyring, cache, default_caps, relation_data, processed>>

Returns(r) ==
    /\ ret' = r
    /\ invoked' = Append(invoked, [i |-> idx, r |-> r])
    /\ idx' = idx + 1
    /\ pc' = "loop"
    /\ UNCHANGED <<reqs, exc, v1ret, resp, out, keyring, cache, default_caps, relation_data, processed>>

Raises(e) ==
    /\ exc' = ExcV(e)
    /\ invoked' = Append(invoked, [i |-> idx, r |-> ExcV(e)])
    /\ pc' = "raised"
    /\ UNCHANGED <<reqs, ret, idx, v1ret, resp, out, keyring, cache, default_caps, relation_data, processed>>

\* one state-changing command, run with check_call: it raises when it fails
Issue(c, a, rc) == cmds' = Append(cmds, Cmd(c, a, rc))

(***************************************************************************)
(* A handler that runs several commands: plan is the list of commands in   *)
(* program order, each marked fatal when the code lets its failure         *)
(* propagate; rcs gives the exit code of each.  Execution stops at the     *)
(* first fatal command that fails.                                         *)
(***************************************************************************)
Step(c, a, fatal) == [cmd |-> c, arg |-> a, fatal |-> fatal]

FirstFatal(plan, rcs) ==
    LET bad == {i \in 1..Len(plan) : plan[i].fatal /\ rcs[i] # 0}
    IN  IF bad = {} THEN 0 ELSE CHOOSE i \in bad : \A j \in bad : i <= j

Executed(plan, rcs) ==
    LET n == IF FirstFatal(plan, rcs) = 0 THEN Len(plan) ELSE FirstFatal(plan, rcs)
    IN  [i \in 1..n |-> Cmd(plan[i].cmd, plan[i].arg, rcs[i])]

\* the exit codes of a plan, one choice per distinct execution: nothing
\* after the first fatal failure is run
Runs(plan) ==
    {rcs \in [1..Len(plan) -> ExitCodes] :
        \A i \in 1..Len(plan) :
            (\E j \in 1..(i - 1) : plan[j].fatal /\ rcs[j] # 0) => rcs[i] = 0}

Range(s) == {s[i] : i \in 1..Len(s)}

(***************************************************************************)
(* Pool handlers that run one command with check_call.  A parameter the    *)
(* request lacks reaches the argument list as None, which makes the call   *)
(* raise TypeError before any command runs.                                *)
(***************************************************************************)
delete_pool ==
    /\ Dispatches("delete_pool")
    /\ IF ~Has(Op, "name")
       THEN Raises("TypeError") /\ UNCHANGED cmds /\ UNCHANGED cluster
       ELSE \E rc \in ExitCodes :
              /\ Issue("osd pool delete", Op["name"], rc)
              /\ pools' = IF rc = 0 THEN pools \ {Op["name"]} ELSE pools
              /\ IF rc = 0 THEN Returns(None) ELSE Raises("CalledProcessError")
              /\ UNCHANGED <<profiles, fsys, groups, services>>

rename_pool ==
    /\ Dispatches("rename_pool")
    /\ IF ~Has(Op, "name") \/ ~Has(Op, "new-name")
       THEN Raises("TypeError") /\ UNCHANGED cmds /\ UNCHANGED cluster
       ELSE \E rc \in ExitCodes :
              /\ Issue("osd pool rename", Op["name"], rc)
              /\ pools' = IF rc = 0 /\ Op["name"] \in pools
                          THEN (pools \ {Op["name"]}) \cup {Op["new-name"]}
                          ELSE pools
              /\ IF rc = 0 THEN Returns(None) ELSE Raises("CalledProcessError")
              /\ UNCHANGED <<profiles, fsys, groups, services>>

snapshot_pool ==
    /\ Dispatches("snapshot_pool")
    /\ IF ~Has(Op, "name") \/ ~Has(Op, "snapshot-name")
       THEN Raises("TypeError") /\ UNCHANGED cmds
       ELSE \E rc \in ExitCodes :
              /\ Issue("osd pool mksnap", Op["name"], rc)
              /\ IF rc = 0 THEN Returns(None) ELSE Raises("CalledProcessError")
    /\ UNCHANGED cluster

remove_pool_snapshot ==
    /\ Dispatches("remove_pool_snapshot")
    /\ IF ~Has(Op, "name") \/ ~Has(Op, "snapshot-name")
       THEN Raises("TypeError") /\ UNCHANGED cmds
       ELSE \E rc \in ExitCodes :
              /\ Issue("osd pool rmsnap", Op["name"], rc)
              /\ IF rc = 0 THEN Returns(None) ELSE Raises("CalledProcessError")
    /\ UNCHANGED cluster

handle_set_pool_value ==
    /\ Dispatches("handle_set_pool_value")
    /\ IF ~Has(Op, "name") \/ ~Has(Op, "key")
       THEN Raises("TypeError") /\ UNCHANGED cmds
       ELSE \E rc \in ExitCodes :
              /\ Issue("osd pool set", Op["name"], rc)
              /\ IF rc = 0 THEN Returns(None) ELSE Raises("CalledProcessError")
    /\ UNCHANGED cluster

(***************************************************************************)
(* radosgw-admin handlers: parameter check, then one check_output whose    *)
(* CalledProcessError is turned into an error result.                      *)
(***************************************************************************)
RgwCommand(required, missingMsg, c) ==
    IF \E k \in required : ~Has(Op, k)
    THEN Returns(ExitError(StrV(missingMsg))) /\ UNCHANGED cmds
    ELSE \E rc \in ExitCodes :
           /\ Issue(c, Op["client-name"], rc)
           /\ IF rc = 0
              THEN Returns(None)
              ELSE Returns(ExitError(CapturedOutput(c)))

handle_rgw_region_set ==
    /\ Dispatches("handle_rgw_region_set")
    /\ RgwCommand({"region-json", "client-name", "region-name", "zone-name"},
                  "Missing json-file or client-name params",
                  "radosgw-admin region set")
    /\ UNCHANGED cluster

handle_rgw_zone_set ==
    /\ Dispatches("handle_rgw_zone_set")
    /\ RgwCommand({"zone-json", "client-name", "region-name", "zone-name"},
                  "Missing json-file or client-name params",
                  "radosgw-admin zone set")
    /\ UNCHANGED cluster

handle_rgw_regionmap_update ==
    /\ Dispatches("handle_rgw_regionmap_update")
    /\ RgwCommand({"client-name"},
                  "Missing rgw-region or client-name params",
                  "radosgw-admin regionmap update")
    /\ UNCHANGED cluster

handle_rgw_regionmap_default ==
    /\ Dispatches("handle_rgw_regionmap_default")
    /\ RgwCommand({"rgw-region", "client-name"},
                  "Missing rgw-region or client-name params",
                  "radosgw-admin regionmap default")
    /\ UNCHANGED cluster

handle_rgw_create_user ==
    /\ Dispatches("handle_rgw_create_user")
    /\ IF \E k \in {"client-name", "display-name", "rgw-uid"} : ~Has(Op, k)
       THEN /\ Returns(ExitError(StrV("Missing client-name, display-name or rgw-uid")))
            /\ UNCHANGED cmds
       ELSE \E rc \in ExitCodes, isJson \in BOOLEAN :
              /\ Issue("radosgw-admin user create", Op["rgw-uid"], rc)
              /\ IF rc # 0
                 THEN Returns(ExitError(CapturedOutput("radosgw-admin user create")))
                 ELSE IF isJson
                      THEN Returns(ExitOk @@ ("user" :> JsonV(Op["rgw-uid"])))
                      ELSE Returns(ExitError(ExcV("ValueError")))
    /\ UNCHANGED cluster

handle_put_osd_in_bucket ==
    /\ Dispatches("handle_put_osd_in_bucket")
    /\ IF ~Has(Op, "osd") \/ ~Has(Op, "bucket")
       THEN Returns(ExitError(StrV("Missing OSD ID or Bucket"))) /\ UNCHANGED cmds
       ELSE LET failed == ExitError(StrV("Failed to move OSD " \o Op["osd"]
                              \o " into Bucket " \o Op["bucket"] \o " :: <exc>"))
            IN  \E treeOk \in BOOLEAN, rc \in ExitCodes :
                  IF ~treeOk
                  THEN Returns(failed) /\ UNCHANGED cmds
                  ELSE /\ Issue("osd crush set", Op["osd"], rc)
                       /\ IF rc = 0 THEN Returns(None) ELSE Returns(failed)
    /\ UNCHANGED cluster

handle_set_key_permissions ==
    /\ Dispatches("handle_set_key_permissions")
    /\ IF ~Has(Op, "permissions")
       THEN Raises("TypeError") /\ UNCHANGED cmds
       ELSE \E rc \in ExitCodes :
              /\ Issue("auth caps", "client." \o GetStr(Op, "client"), rc)
              /\ Returns(None)
    /\ UNCHANGED cluster

(***************************************************************************)
(* pool_exists and erasure_profile_exists: a failing query command reads   *)
(* as "does not exist".                                                    *)
(***************************************************************************)
pool_exists(name, queryOk) == queryOk /\ name \in pools

erasure_profile_exists(name, queryOk) == queryOk /\ Has(profiles, name)

\* "fs new" on the cluster: an existing filesystem is refused with EINVAL
FsNewOutcomes(fs) == IF Has(fsys, fs) THEN FsNewExitCodes \ {0} ELSE FsNewExitCodes \ {22}

handle_create_cephfs ==
    /\ Dispatches("handle_create_cephfs")
    /\ IF ~Has(Op, "mds_name") \/ ~Has(Op, "data_pool") \/ ~Has(Op, "metadata_pool")
       THEN /\ Returns(ExitError(StrV("Missing mds_name, data_pool or metadata_pool params")))
            /\ UNCHANGED cmds
            /\ UNCHANGED cluster
       ELSE LET fs == Op["mds_name"]
                extra == IF Has(Op, "extra_pools") THEN Op["extra_pools"] ELSE <<>>
                needed == <<Op["data_pool"], Op["metadata_pool"]>> \o extra
                plan == [i \in 1..Len(extra) |->
                            Step("fs add_data_pool", extra[i], TRUE)]
            IN  \E lsOk \in [1..Len(needed) -> BOOLEAN],
                   rcNew \in FsNewOutcomes(fs),
                   rcs \in Runs(plan) :
                  LET missing == {i \in 1..Len(needed) : ~pool_exists(needed[i], lsOk[i])}
                      first == CHOOSE i \in missing : \A j \in missing : i <= j
                      added == {extra[i] : i \in {j \in 1..Len(extra) :
                                   FirstFatal(plan, rcs) = 0 \/ j < FirstFatal(plan, rcs)}}
                  IN  IF missing # {}
                      THEN /\ Returns(ExitError(StrV("CephFS pool " \o needed[first]
                                  \o " does not exist. Cannot create CephFS")))
                           /\ UNCHANGED cmds
                           /\ UNCHANGED cluster
                      ELSE IF rcNew # 0
                      THEN /\ Issue("fs new", fs, rcNew)
                           /\ IF rcNew = 22
                              THEN Returns(None)
                              ELSE Returns(ExitError(CapturedOutput("fs new")))
                           /\ UNCHANGED cluster
                      ELSE /\ cmds' = Append(cmds, Cmd("fs new", fs, 0))
                                          \o Executed(plan, rcs)
                           /\ fsys' = (fs :> ({Op["data_pool"]} \cup added)) @@ fsys
                           /\ IF FirstFatal(plan, rcs) = 0
                              THEN Returns(None)
                              ELSE Returns(ExitError(CapturedOutput("fs add_data_pool")))
                           /\ UNCHANGED <<pools, profiles, groups, services>>

(***************************************************************************)
(* create_erasure_profile and its handler.  The handler passes every       *)
(* request.get() result as a keyword argument, None included.              *)
(***************************************************************************)
ProfileOf(request) ==
    [plugin |-> GetStr(request, "erasure-type"),
     k |-> IF Has(request, "k") THEN ToString(request["k"]) ELSE "None",
     m |-> IF Has(request, "m") THEN ToString(request["m"]) ELSE "None"]

handle_create_erasure_profile ==
    /\ Dispatches("handle_create_erasure_profile")
    /\ IF ~Has(Op, "name")
       THEN \* validator(value=name, valid_type=str) in erasure_profile_exists
            Raises("AssertionError") /\ UNCHANGED cmds /\ UNCHANGED cluster
       ELSE \E getOk \in BOOLEAN, rc \in ExitCodes :
              IF erasure_profile_exists(Op["name"], getOk)
              THEN Returns(ExitOk) /\ UNCHANGED cmds /\ UNCHANGED cluster
              ELSE IF GetStr(Op, "erasure-type") = "lrc" /\ ~Has(Op, "l")
              THEN Raises("ValueError") /\ UNCHANGED cmds /\ UNCHANGED cluster
              ELSE /\ Issue("osd erasure-code-profile set", Op["name"], rc)
                   /\ profiles' = IF rc = 0
                                  THEN (Op["name"] :> ProfileOf(Op)) @@ profiles
                                  ELSE profiles
                   /\ IF rc = 0 THEN Returns(ExitOk) ELSE Raises("CalledProcessError")
                   /\ UNCHANGED <<pools, fsys, groups, services>>

(***************************************************************************)
(* create-pool: handle_create_pool, handle_replicated_pool,                *)
(* handle_erasure_pool with BasePool.create / update of ceph.py.           *)
(***************************************************************************)
MissingParameter == ExitError(StrV("Missing parameter."))

\* commands of BasePool._post_create after the type specific part: the
\* application tag and, when the manager module is on, the autoscaler;
\* neither failure is raised
PostCreatePlan(name, autoscaler) ==
    <<Step("osd pool application enable", name, FALSE)>>
    \o (IF autoscaler THEN <<Step("osd pool set pg_autoscale_mode", name, FALSE)>>
        ELSE <<>>)

SetSize(name) == Step("osd pool set size", name, TRUE)

\* ReplicatedPool: create() = _create, _post_create, update; then the
\* handler calls update() once more
ReplicatedPlan(name, exists, autoscaler) ==
    (IF exists THEN <<>>
     ELSE <<Step("osd pool create", name, TRUE), SetSize(name)>>
          \o PostCreatePlan(name, autoscaler)
          \o <<SetSize(name)>>)
    \o <<SetSize(name)>>

ErasurePlan(name, exists, autoscaler) ==
    IF exists THEN <<>>
    ELSE <<Step("osd pool create", name, TRUE)>> \o PostCreatePlan(name, autoscaler)

RunPoolPlan(name, plan, rcs) ==
    /\ cmds' = cmds \o Executed(plan, rcs)
    /\ pools' = IF \E i \in 1..Len(Executed(plan, rcs)) :
                      /\ plan[i].cmd = "osd pool create"
                      /\ rcs[i] = 0
                THEN pools \cup {name}
                ELSE pools
    /\ IF FirstFatal(plan, rcs) = 0
       THEN Returns(None)
       ELSE Raises("CalledProcessError")
    /\ UNCHANGED <<profiles, fsys, groups, services>>

handle_replicated_pool ==
    IF ~Has(Op, "name") \/ ~Has(Op, "replicas")
    THEN Returns(MissingParameter) /\ UNCHANGED cmds /\ UNCHANGED cluster
    ELSE \E ls1, ls2, autoscaler \in BOOLEAN :
           LET name == Op["name"]
               \* the handler's check, then the one inside create()
               exists == pool_exists(name, ls1) \/ pool_exists(name, ls2)
               plan == ReplicatedPlan(name, exists, autoscaler)
           IN  \E rcs \in Runs(plan) : RunPoolPlan(name, plan, rcs)

handle_erasure_pool ==
    LET erasure_profile == IF Has(Op, "erasure-profile") THEN Op["erasure-profile"]
                           ELSE "default-canonical"
    IN  \E getOk, ls1, ls2, autoscaler \in BOOLEAN, query \in {"ok", "no profile", "no osds"} :
          IF ~erasure_profile_exists(erasure_profile, getOk)
          THEN /\ Returns(ExitError(StrV("erasure-profile " \o erasure_profile
                          \o " does not exist.  Please create it with: create-erasure-profile")))
               /\ UNCHANGED cmds
               /\ UNCHANGED cluster
          ELSE IF ~Has(Op, "name")
          THEN Returns(MissingParameter) /\ UNCHANGED cmds /\ UNCHANGED cluster
          ELSE LET name == Op["name"]
                   exists == pool_exists(name, ls1) \/ pool_exists(name, ls2)
                   plan == ErasurePlan(name, exists, autoscaler)
               IN  IF ~exists /\ query = "no profile"
                   THEN \* get_erasure_profile returned None
                        Raises("PoolCreationError") /\ UNCHANGED cmds /\ UNCHANGED cluster
                   ELSE IF ~exists /\ query = "no osds"
                   THEN \* get_osds inside get_pgs failed
                        Raises("CalledProcessError") /\ UNCHANGED cmds /\ UNCHANGED cluster
                   ELSE \E rcs \in Runs(plan) : RunPoolPlan(name, plan, rcs)

handle_create_pool ==
    /\ Dispatches("handle_create_pool")
    /\ IF Has(Op, "pool-type") /\ Op["pool-type"] = "erasure"
       THEN handle_erasure_pool
       ELSE handle_replicated_pool

(***************************************************************************)
(* Group and service records (get_group, save_group, get_service_groups,   *)
(* save_service) and add-permissions-to-key.                               *)
(***************************************************************************)
EmptyGroup == [pools |-> <<>>, services |-> <<>>]
EmptyService == [group_names |-> <<>>]

get_group(group_name, queryOk) ==
    IF queryOk /\ Has(groups, group_name) THEN groups[group_name] ELSE EmptyGroup

get_service_groups(service, queryOk) ==
    IF queryOk /\ Has(services, service) THEN services[service] ELSE EmptyService

AddOnce(seq, x) == IF x \in Range(seq) THEN seq ELSE Append(seq, x)

handle_add_permissions_to_key ==
    /\ Dispatches("handle_add_permissions_to_key")
    /\ \E gGet, sGet \in BOOLEAN, rcGroup, rcService, rcCaps \in ExitCodes :
         LET service_name == GetStr(Op, "name")
             group_name == IF Has(Op, "group-namespace")
                           THEN Op["group-namespace"] \o "-" \o GetStr(Op, "group")
                           ELSE GetStr(Op, "group")
             group == get_group(group_name, gGet)
             service_obj == get_service_groups(service_name, sGet)
             permission == IF Has(Op, "group-permission") THEN Op["group-permission"]
                           ELSE "rwx"
             newGroup == [group EXCEPT !.services = AddOnce(@, service_name)]
             names == IF Has(service_obj.group_names, permission)
                      THEN service_obj.group_names[permission] ELSE <<>>
             newService == [service_obj EXCEPT !.group_names =
                               (permission :> AddOnce(names, group_name)) @@ @]
             putGroup == Cmd("config-key put", "cephx.groups." \o group_name, rcGroup)
             putService == Cmd("config-key put", "cephx.services." \o service_name, rcService)
             caps == Cmd("auth caps", "client." \o service_name, rcCaps)
         IN  IF rcGroup # 0
             THEN /\ cmds' = Append(cmds, putGroup)
                  /\ Raises("CalledProcessError")
                  /\ UNCHANGED cluster
             ELSE IF rcService # 0
             THEN /\ cmds' = cmds \o <<putGroup, putService>>
                  /\ groups' = (group_name :> newGroup) @@ groups
                  /\ Raises("CalledProcessError")
                  /\ UNCHANGED <<pools, profiles, fsys, services>>
             ELSE /\ cmds' = cmds \o <<putGroup, putService, caps>>
                  /\ groups' = (group_name :> newGroup) @@ groups
                  /\ services' = (service_name :> newService) @@ services
                  /\ Returns(ExitOk)
                  /\ UNCHANGED <<pools, profiles, fsys>>

(***************************************************************************)
(* The specification: one envelope, processed to its response.             *)
(***************************************************************************)
Next ==
    \/ BeginV1
    \/ RejectVersion
    \/ UnknownOperation
    \/ handle_create_pool
    \/ handle_create_cephfs
    \/ handle_create_erasure_profile
    \/ delete_pool
    \/ rename_pool
    \/ snapshot_pool
    \/ remove_pool_snapshot
    \/ handle_set_pool_value
    \/ handle_rgw_region_set
    \/ handle_rgw_zone_set
    \/ handle_rgw_regionmap_update
    \/ handle_rgw_regionmap_default
    \/ handle_rgw_create_user
    \/ handle_put_osd_in_bucket
    \/ handle_add_permissions_to_key
    \/ handle_set_key_permissions
    \/ LoopDone
    \/ ReturnV1
    \/ CatchException
    \/ EncodeResponse

Spec == Init /\ [][Next]_vars

(***************************************************************************)
(* BasePool.get_pgs (src/src/ceph.py).  The specification PgSpec calls it  *)
(* once on arguments drawn from bounded sets: reqs holds the arguments     *)
(* and what the cluster and the charm configuration answer, ret the        *)
(* number returned.                                                        *)
(*                                                                         *)
(* percent_data /= 100.0 and the product with it are IEEE-754 double       *)
(* operations; they are modelled exactly.  For an integer percentage p     *)
(* the double d nearest to p/100 is m * 2^-s with 2^52 <= m < 2^53, so     *)
(* d = p/100 + (e/100) * 2^-s where e is fixed by (p * 2^s) mod 100.  The  *)
(* exact product (100 * n) * d is then X + n * e * 2^-s with X = n * p an  *)
(* integer, and it rounds to a double below X exactly when the error term  *)
(* exceeds half the spacing of the doubles just below X.  The target is    *)
(* the default of 100 PGs per OSD (config "pgs-per-osd" unset).            *)
(***************************************************************************)
DEFAULT_PGS_PER_OSD_TARGET == 100
LEGACY_PG_COUNT == 200
DEFAULT_MINIMUM_PGS == 2

MaxPoolSize == 4
MaxOsds == 12

RECURSIVE Pow2(_)
Pow2(n) == IF n = 0 THEN 1 ELSE 2 * Pow2(n - 1)

\* 2^n mod m, without leaving the range of the integers
RECURSIVE Pow2Mod(_, _)
Pow2Mod(n, m) ==
    IF n = 0 THEN 1 % m
    ELSE LET half == Pow2Mod(n \div 2, m)
         IN  IF n % 2 = 0 THEN (half * half) % m ELSE (2 * half * half) % m

\* math.floor(math.log(n, 2)) for n >= 1
RECURSIVE FloorLog2(_)
FloorLog2(n) == IF n < 2 THEN 0 ELSE 1 + FloorLog2(n \div 2)

\* the k with 2^-k <= p/100 < 2^-(k-1), for 1 <= p < 200
RECURSIVE Binade(_, _)
Binade(p, k) == IF p * Pow2(k) >= 100 THEN k ELSE Binade(p, k + 1)

\* the rounding error of p / 100.0, in hundredths of the last mantissa bit
DivisionError(p) ==
    LET r == (p * Pow2Mod(52 + Binade(p, 0), 100)) % 100
    IN  IF r = 0 THEN 0 ELSE IF r < 50 THEN 0 - r ELSE 100 - r

\* 100 * osd_count * (p / 100.0) is a double just below the integer
\* osd_count * p
ProductBelow(osd_count, p) ==
    LET X == (DEFAULT_PGS_PER_OSD_TARGET * osd_count * p) \div 100
        j == FloorLog2(X)
        half == IF X = Pow2(j) THEN 4 ELSE 2
    IN  half * osd_count * (0 - DivisionError(p)) > Pow2(Binade(p, 0) + j)

\* (target_pgs_per_osd * osd_count * percent_data) // pool_size
FloatFloorDiv(osd_count, p, pool_size) ==
    LET X == (DEFAULT_PGS_PER_OSD_TARGET * osd_count * p) \div 100
    IN  IF ProductBelow(osd_count, p) /\ X % pool_size = 0
        THEN (X \div pool_size) - 1
        ELSE X \div pool_size

\* the number of OSDs the calculation uses; 0 stands for "return the
\* legacy constant".  expected is config("expected-osd-count") or 0.
OsdCount(osds, expected) ==
    IF osds > 0 THEN (IF expected > osds THEN expected ELSE osds)
    ELSE expected

get_pgs(pool_size, percent_data, osds, expected) ==
    IF OsdCount(osds, expected) = 0 THEN LEGACY_PG_COUNT
    ELSE LET raw == FloatFloorDiv(OsdCount(osds, expected), percent_data, pool_size)
             num_pg == IF raw < DEFAULT_MINIMUM_PGS THEN DEFAULT_MINIMUM_PGS ELSE raw
             nearest == Pow2(FloorLog2(num_pg))
         IN  IF 4 * (num_pg - nearest) > num_pg THEN nearest * 2 ELSE nearest

Percentages == 1..100
ExpectedOsdCounts == {0, MaxOsds \div 2}

PgArguments ==
    [pool_size : 1..MaxPoolSize, percent_data : Percentages,
     osds : 0..MaxOsds, expected : ExpectedOsdCounts]

PgInit ==
    /\ reqs \in PgArguments
    /\ pc = "get_pgs"
    /\ idx = 0
    /\ ret = None
    /\ exc = None
    /\ invoked = <<>>
    /\ v1ret = None
    /\ resp = None
    /\ out = None
    /\ keyring = <<>>
    /\ cache = <<>>
    /\ default_caps = DefaultCaps
    /\ relation_data = <<>>
    /\ processed = <<>>
    /\ cmds = <<>>
    /\ pools = {}
    /\ profiles = <<>>
    /\ fsys = <<>>
    /\ groups = <<>>
    /\ services = <<>>

CallGetPgs ==
    /\ pc = "get_pgs"
    /\ ret' = IntV(get_pgs(reqs.pool_size, reqs.percent_data, reqs.osds, reqs.expected))
    /\ pc' = "returned"
    /\ UNCHANGED <<reqs, idx, exc, invoked, v1ret, resp, out, keyring, cache, default_caps, relation_data, processed, cmds>>
    /\ UNCHANGED cluster

PgNext == CallGetPgs

PgSpec == PgInit /\ [][PgNext]_vars

(***************************************************************************)
(* Capabilities of a service (src/src/ceph_broker.py).  A service object   *)
(* is {group_names: {permission: [group, ...]}, groups: {group: {pools,    *)
(* services}}, object_prefix_perms: {permission: [prefix, ...]}}.  A       *)
(* Python dict keeps the order in which its keys were inserted, which the  *)
(* iteration of pool_permission_list_for_service can see: such a dict is   *)
(* a sequence of entries [k, v] with distinct keys.                        *)
(***************************************************************************)
\* the permission levels of the model, in the order of Python's sorted()
SortedKeys == <<"r", "rw", "rwx">>

OdKeys(od) == {od[i].k : i \in 1..Len(od)}

OdGet(od, k) == od[CHOOSE i \in 1..Len(od) : od[i].k = k].v

\* d[k] = v: a new key goes last, an old key keeps its place
OdSet(od, k, v) ==
    IF k \in OdKeys(od)
    THEN [i \in 1..Len(od) |-> IF od[i].k = k THEN [k |-> k, v |-> v] ELSE od[i]]
    ELSE Append(od, [k |-> k, v |-> v])

\* iteration in the order the keys were inserted
OdItems_Unsorted(od) == od

\* sorted(d.items()), also the order json.dumps(sort_keys=True) writes
OdItems(od) ==
    LET present == {i \in 1..Len(SortedKeys) : SortedKeys[i] \in OdKeys(od)}
        nth(n) == CHOOSE i \in present : Cardinality({j \in present : j < i}) = n - 1
    IN  [n \in 1..Cardinality(present) |->
            [k |-> SortedKeys[nth(n)], v |-> OdGet(od, SortedKeys[nth(n)])]]

RECURSIVE Flatten(_)
Flatten(ss) == IF ss = <<>> THEN <<>> ELSE Head(ss) \o Flatten(Tail(ss))

\* sep.join(strings)
RECURSIVE Join(_, _)
Join(strings, sep) ==
    IF strings = <<>> THEN ""
    ELSE IF Len(strings) = 1 THEN strings[1]
    ELSE strings[1] \o sep \o Join(Tail(strings), sep)

MonCaps == "allow r, allow command \"osd blacklist\", allow command \"osd blocklist\""

\* the list "permissions" that pool_permission_list_for_service builds
PermissionList(service) ==
    LET levels == OdItems(service.group_names)
        ofGroup(level, group) ==
            [i \in 1..Len(service.groups[group].pools) |->
                "allow " \o level \o " pool=" \o service.groups[group].pools[i]]
        ofLevel(n) ==
            Flatten([g \in 1..Len(levels[n].v) |-> ofGroup(levels[n].k, levels[n].v[g])])
        prefixes == OdItems(IF Has(service, "object_prefix_perms")
                            THEN service.object_prefix_perms ELSE <<>>)
        ofPrefix(n) ==
            [i \in 1..Len(prefixes[n].v) |->
                "allow " \o prefixes[n].k \o " object_prefix " \o prefixes[n].v[i]]
    IN  Flatten([n \in 1..Len(levels) |-> ofLevel(n)])
        \o Flatten([n \in 1..Len(prefixes) |-> ofPrefix(n)])

pool_permission_list_for_service(service) ==
    <<"mon", MonCaps, "osd", Join(PermissionList(service), ", ")>>

(***************************************************************************)
(* The specification CapsSpec calls pool_permission_list_for_service once  *)
(* on a service object drawn from a bounded set: permission levels in      *)
(* every insertion order, one or two groups per level, with or without     *)
(* object prefix permissions.                                              *)
(***************************************************************************)
CapsGroups == ("g" :> [pools |-> <<"p", "q">>, services |-> <<"svc">>])
              @@ ("h" :> [pools |-> <<"x">>, services |-> <<"svc">>])

CapsGroupLists == {<<"g">>, <<"h", "g">>}

\* every dict over the permission levels, in every insertion order
OrderedDicts(values) ==
    LET keys == {SortedKeys[i] : i \in 1..Len(SortedKeys)}
    IN  {od \in UNION {[1..n -> [k : keys, v : values]] : n \in 0..Len(SortedKeys)} :
            \A i, j \in 1..Len(od) : i # j => od[i].k # od[j].k}

CapsPrefixPerms ==
    {<<>>,
     <<[k |-> "rwx", v |-> <<"a_">>]>>,
     <<[k |-> "rwx", v |-> <<"a_">>], [k |-> "r", v |-> <<"b_", "c_">>]>>}

ServiceObjects ==
    {[group_names |-> gn, groups |-> CapsGroups] : gn \in OrderedDicts(CapsGroupLists)}
    \cup {[group_names |-> gn, groups |-> CapsGroups, object_prefix_perms |-> pp] :
            gn \in OrderedDicts(CapsGroupLists), pp \in CapsPrefixPerms \ {<<>>}}

CapsInit ==
    /\ reqs \in ServiceObjects
    /\ pc = "pool_permission_list_for_service"
    /\ idx = 0
    /\ ret = None
    /\ exc = None
    /\ invoked = <<>>
    /\ v1ret = None
    /\ resp = None
    /\ out = None
    /\ keyring = <<>>
    /\ cache = <<>>
    /\ default_caps = DefaultCaps
    /\ relation_data = <<>>
    /\ processed = <<>>
    /\ cmds = <<>>
    /\ pools = {}
    /\ profiles = <<>>
    /\ fsys = <<>>
    /\ groups = <<>>
    /\ services = <<>>

BuildCaps ==
    /\ pc = "pool_permission_list_for_service"
    /\ ret' = pool_permission_list_for_service(reqs)
    /\ pc' = "returned"
    /\ UNCHANGED <<reqs, idx, exc, invoked, v1ret, resp, out, keyring, cache, default_caps, relation_data, processed, cmds>>
    /\ UNCHANGED cluster

CapsNext == BuildCaps

CapsSpec == CapsInit /\ [][CapsNext]_vars

(***************************************************************************)
(* One call of a handler, step by step.  The pool and group operations     *)
(* below are functions from a run record to a run record:                  *)
(*   tr      the method calls and commands of the call so far, in order    *)
(*   raised  the exception that is propagating, "" when none               *)
(*   ret     the value the handler returned                                *)
(*   req     the request dict, which the handler may update                *)
(*   pools, profiles, groups, services   the cluster                       *)
(* A step applied to a run in which an exception is propagating does       *)
(* nothing.  The environment of a call is the set of command kinds that    *)
(* fail during it, and the OSD ids the cluster reports.                    *)
(***************************************************************************)
MaxFailures == 2

Kinds ==
    {"lspools in handler", "lspools in create", "osd ls", "osd pool create",
     "osd pool set", "osd pool application enable", "pg_autoscaler",
     "osd pool set pg_autoscale_mode",
     "osd pool set-quota", "osd pool delete", "erasure-code-profile exists",
     "erasure-code-profile get", "config-key get", "config-key put", "auth caps"}

Environments == {env \in SUBSET Kinds : Cardinality(env) <= MaxFailures}

OsdCounts == {0, 1, 3}

StartRun(request) ==
    [tr |-> <<>>, raised |-> "", ret |-> None, req |-> request,
     pools |-> pools, profiles |-> profiles, groups |-> groups, services |-> services]

Live(st) == st.raised = ""

Event(st, e) == IF Live(st) THEN [st EXCEPT !.tr = Append(@, e)] ELSE st

Raise(st, e) == IF Live(st) THEN [st EXCEPT !.raised = e] ELSE st

Return(st, r) == IF Live(st) THEN [st EXCEPT !.ret = r] ELSE st

\* entry of a method of the pool object, or of a function given the pool name
Call(st, method, name) == Event(st, [call |-> method, pool |-> name])

\* subprocess.check_call: the command is run, and a failure raises
check_call(st, command, env, kind) ==
    LET rc == IF kind \in env THEN 1 ELSE 0
        ran == Event(st, [rc |-> rc] @@ command)
    IN  IF rc # 0 THEN Raise(ran, "CalledProcessError") ELSE ran

\* a check_call whose CalledProcessError the caller catches and logs
check_call_logged(st, command, env, kind) ==
    Event(st, [rc |-> IF kind \in env THEN 1 ELSE 0] @@ command)

(***************************************************************************)
(* Groups and services in the monitor's key store.  A stored service is    *)
(* what json.dumps(sort_keys=True) wrote: its dicts come back in sorted    *)
(* key order and its "groups" is empty.                                    *)
(***************************************************************************)
NewService == [group_names |-> <<>>, groups |-> <<>>]

\* monitor_key_get: the command is run; when it fails the caller gets None
monitor_key_get(st, key, env) ==
    check_call_logged(st, [cmd |-> "config-key get", arg |-> key], env, "config-key get")

RECURSIVE GetEach(_, _, _)
GetEach(st, keys, env) ==
    IF keys = <<>> THEN st
    ELSE GetEach(monitor_key_get(st, Head(keys), env), Tail(keys), env)

\* the group that get_group returns
GetGroup(st, group_name, env) ==
    IF "config-key get" \notin env /\ Has(st.groups, group_name)
    THEN st.groups[group_name]
    ELSE EmptyGroup

SaveGroup(st, group, group_name, env) ==
    LET put == check_call(st, [cmd |-> "config-key put",
                               arg |-> "cephx.groups." \o group_name,
                               value |-> group], env, "config-key put")
    IN  IF Live(put) THEN [put EXCEPT !.groups = (group_name :> group) @@ @] ELSE put

\* the groups a service names, in the order service["group_names"].values()
\* gives them
GroupsListed(service) ==
    Flatten([i \in 1..Len(service.group_names) |-> service.group_names[i].v])

\* the name under which _build_service_groups looks a group up; the
\* namespace is "" when the request has none
LookupName(group, namespace) ==
    IF namespace # "" THEN namespace \o "-" \o group ELSE group

_build_service_groups(st, service, namespace, env) ==
    [group \in Range(GroupsListed(service)) |->
        GetGroup(st, LookupName(group, namespace), env)]

\* the reads of _build_service_groups
BuildReads(st, service, namespace, env) ==
    GetEach(st, [n \in 1..Len(GroupsListed(service)) |->
                    "cephx.groups." \o LookupName(GroupsListed(service)[n], namespace)],
            env)

\* the service object that get_service_groups returns
GetServiceGroups(st, service, namespace, env) ==
    IF "config-key get" \notin env /\ Has(st.services, service)
    THEN [st.services[service] EXCEPT
             !.groups = _build_service_groups(st, st.services[service], namespace, env)]
    ELSE NewService

\* the reads of get_service_groups
ServiceReads(st, service, namespace, env) ==
    LET got == monitor_key_get(st, "cephx.services." \o service, env)
    IN  IF "config-key get" \notin env /\ Has(st.services, service)
        THEN BuildReads(got, st.services[service], namespace, env)
        ELSE got

SortKeys(service) ==
    IF Has(service, "object_prefix_perms")
    THEN [service EXCEPT !.group_names = OdItems(@),
                         !.object_prefix_perms = OdItems(@)]
    ELSE [service EXCEPT !.group_names = OdItems(@)]

save_service(st, service_name, service, env) ==
    LET stored == SortKeys([service EXCEPT !.groups = <<>>])
        put == check_call(st, [cmd |-> "config-key put",
                               arg |-> "cephx.services." \o service_name,
                               value |-> stored], env, "config-key put")
    IN  IF Live(put) THEN [put EXCEPT !.services = (service_name :> stored) @@ @]
        ELSE put

\* a capability update whose failure is raised
AuthCaps_Fatal(st, service, service_obj, env) ==
    check_call(st, [cmd |-> "auth caps",
                    arg |-> "client." \o service,
                    caps |-> pool_permission_list_for_service(service_obj),
                    permissions |-> PermissionList(service_obj)],
               env, "auth caps")

\* the "ceph auth caps" command for the service object
AuthCaps(st, service, service_obj, env) ==
    check_call_logged(st, [cmd |-> "auth caps",
                           arg |-> "client." \o service,
                           caps |-> pool_permission_list_for_service(service_obj),
                           permissions |-> PermissionList(service_obj)],
                      env, "auth caps")

\* update_service_permissions(service, namespace=namespace)
update_service_permissions(st, service, namespace, env) ==
    AuthCaps(ServiceReads(st, service, namespace, env), service,
             GetServiceGroups(st, service, namespace, env), env)

RECURSIVE UpdateEach(_, _, _, _)
UpdateEach(st, members, namespace, env) ==
    IF members = <<>> THEN st
    ELSE UpdateEach(update_service_permissions(st, Head(members), namespace, env),
                    Tail(members), namespace, env)

\* a group that is written without a look at what it holds
add_pool_to_group_Appends(st, pool, group, namespace, env) ==
    LET group_name == LookupName(group, namespace)
        entered == Call(st, "add_pool_to_group", pool)
        new == [GetGroup(st, group_name, env) EXCEPT !.pools = Append(@, pool)]
    IN  UpdateEach(SaveGroup(monitor_key_get(entered, "cephx.groups." \o group_name, env),
                             new, group_name, env),
                   new.services, namespace, env)

add_pool_to_group(st, pool, group, namespace, env) ==
    LET group_name == LookupName(group, namespace)
        entered == Call(st, "add_pool_to_group", pool)
        new == [GetGroup(st, group_name, env) EXCEPT !.pools = AddOnce(@, pool)]
    IN  UpdateEach(SaveGroup(monitor_key_get(entered, "cephx.groups." \o group_name, env),
                             new, group_name, env),
                   new.services, namespace, env)

Namespace(request) ==
    IF Has(request, "group-namespace") THEN request["group-namespace"] ELSE ""

HandleAddPermissionsToKey(st, env) ==
    LET request == st.req
        service_name == request["name"]
        group_namespace == Namespace(request)
        group_name == LookupName(request["group"], group_namespace)
        group == GetGroup(st, group_name, env)
        found == GetServiceGroups(st, service_name, group_namespace, env)
        read == ServiceReads(monitor_key_get(st, "cephx.groups." \o group_name, env),
                             service_name, group_namespace, env)
        service_obj == IF Has(request, "object-prefix-permissions")
                          /\ request["object-prefix-permissions"] # <<>>
                       THEN [k \in DOMAIN found \cup {"object_prefix_perms"} |->
                               IF k = "object_prefix_perms"
                               THEN request["object-prefix-permissions"]
                               ELSE found[k]]
                       ELSE found
        permission == IF Has(request, "group-permission") THEN request["group-permission"]
                      ELSE "rwx"
        newGroup == [group EXCEPT !.services = AddOnce(@, service_name)]
        savedGroup == SaveGroup(read, newGroup, group_name, env)
        granted == IF permission \in OdKeys(service_obj.group_names)
                   THEN OdGet(service_obj.group_names, permission) ELSE <<>>
        newService == [service_obj EXCEPT
                          !.group_names = OdSet(@, permission, AddOnce(granted, group_name))]
        savedService == save_service(savedGroup, service_name, newService, env)
        \* save_service has emptied "groups" of the object; it is rebuilt
        rebuilt == [newService EXCEPT
                       !.groups = _build_service_groups(savedService, newService,
                                                        group_namespace, env)]
    IN  Return(AuthCaps(BuildReads(savedService, newService, group_namespace, env),
                        service_name, rebuilt, env),
               ExitOk)

\* handle_set_key_permissions: the capabilities of the request are handed to
\* "ceph auth caps"; a failure of the command is logged.  A request without
\* "permissions" raises TypeError at the list concatenation.
HandleSetKeyPermissions(st, env) ==
    IF ~Has(st.req, "permissions") THEN Raise(st, "TypeError")
    ELSE check_call_logged(st, [cmd |-> "auth caps",
                                arg |-> "client." \o GetStr(st.req, "client"),
                                caps |-> st.req["permissions"]],
                           env, "auth caps")

(***************************************************************************)
(* The pool classes of src/src/ceph.py: BasePool, ReplicatedPool,          *)
(* ErasurePool.  A pool object is built from the request (op); pool.type   *)
(* tells the class.                                                        *)
(***************************************************************************)
BULK_POOL_WEIGHT_THRESHOLD == 20
AUTOSCALER_DEFAULT_PGS == 32

Get(d, k, default) == IF Has(d, k) THEN d[k] ELSE default

\* __init__ raises KeyError when the op lacks a key it subscripts
Constructible(type, op) ==
    Has(op, "name") /\ (type = "replicated" => Has(op, "replicas"))

PoolObject(type, op) ==
    [type |-> type,
     op |-> op,
     name |-> op["name"],
     percent_data |-> IF Get(op, "weight", 0) # 0 THEN op["weight"] ELSE 10,
     app_name |-> Get(op, "app-name", "unknown"),
     replicas |-> Get(op, "replicas", 0),
     pg_num |-> Get(op, "pg_num", 0),
     profile_name |-> Get(op, "crush-profile", ""),
     erasure_code_profile |-> Get(op, "erasure-profile", "default-canonical"),
     allow_ec_overwrites |-> Get(op, "allow-ec-overwrites", FALSE)]

\* op_validation_map, the keys with a list of valid strings
ValidStrings ==
    ("compression-algorithm" :> {"lz4", "snappy", "zlib", "zstd"})
    @@ ("compression-mode" :> {"none", "passive", "aggressive", "force"})
    @@ ("rbd-mirroring-mode" :> {"image", "pool"})

CompressionKeys == {"compression-algorithm", "compression-mode"}

BasePool_validate(st, pool) ==
    LET entered == Call(st, "validate", pool.name)
    IN  IF \E key \in DOMAIN ValidStrings \cap DOMAIN pool.op :
              pool.op[key] \notin ValidStrings[key]
        THEN Raise(entered, "ValueError")
        ELSE entered

\* update_pool: one check_call per setting
RECURSIVE update_pool(_, _, _, _)
update_pool(st, name, settings, env) ==
    IF settings = <<>> THEN st
    ELSE update_pool(check_call(st, [cmd |-> "osd pool set", arg |-> name,
                                     key |-> Head(settings)[1],
                                     value |-> Head(settings)[2]],
                                env, "osd pool set"),
                     name, Tail(settings), env)

\* get_osds: the call and the number of OSD ids it returned; a failed
\* "osd ls" raises
get_osds(st, env, osds) ==
    IF "osd ls" \in env THEN Raise(st, "CalledProcessError")
    ELSE Event(st, [call |-> "get_osds", pool |-> "", result |-> osds])

\* pool_exists: a failed listing counts as "does not exist"
PoolExists(st, name, env, kind) == kind \notin env /\ name \in st.pools

\* the call of pool_exists and what it answered
Asked(st, name, env, kind) ==
    Event(st, [call |-> "pool_exists", pool |-> name,
               result |-> PoolExists(st, name, env, kind)])

\* a post-create that lets the failures of the application tag and of the
\* autoscaler through
BasePool__post_create_Fatal(st, pool, env) ==
    LET config == IF pool.percent_data >= BULK_POOL_WEIGHT_THRESHOLD
                  THEN <<<<"bulk", "true">>>> ELSE <<>>
        bulk == update_pool(st, pool.name, config, env)
        app == check_call(bulk, [cmd |-> "osd pool application enable",
                                 arg |-> pool.name, value |-> pool.app_name],
                          env, "osd pool application enable")
    IN  IF "pg_autoscaler" \in env THEN app
        ELSE check_call(app, [cmd |-> "osd pool set", arg |-> pool.name,
                              key |-> "pg_autoscale_mode", value |-> "on"],
                        env, "osd pool set pg_autoscale_mode")

BasePool__post_create(st, pool, env) ==
    LET config == IF pool.percent_data >= BULK_POOL_WEIGHT_THRESHOLD
                  THEN <<<<"bulk", "true">>>> ELSE <<>>
        bulk == update_pool(st, pool.name, config, env)
        app == check_call_logged(bulk, [cmd |-> "osd pool application enable",
                                        arg |-> pool.name, value |-> pool.app_name],
                                 env, "osd pool application enable")
    IN  IF "pg_autoscaler" \in env THEN app
        ELSE check_call_logged(app, [cmd |-> "osd pool set", arg |-> pool.name,
                                     key |-> "pg_autoscale_mode", value |-> "on"],
                               env, "osd pool set pg_autoscale_mode")

BasePool_set_quota(st, pool, env) ==
    IF Get(pool.op, "max-bytes", 0) # 0 \/ Get(pool.op, "max-objects", 0) # 0
    THEN check_call(st, [cmd |-> "osd pool set-quota", arg |-> pool.name,
                         max_bytes |-> Get(pool.op, "max-bytes", 0),
                         max_objects |-> Get(pool.op, "max-objects", 0)],
                    env, "osd pool set-quota")
    ELSE st

BasePool_set_compression(st, pool, env) ==
    LET present == {k \in CompressionKeys : Has(pool.op, k)}
        algorithm == IF "compression-algorithm" \in present
                     THEN <<<<"compression_algorithm", pool.op["compression-algorithm"]>>>>
                     ELSE <<>>
        mode == IF "compression-mode" \in present
                THEN <<<<"compression_mode", pool.op["compression-mode"]>>>>
                ELSE <<>>
    IN  update_pool(st, pool.name, algorithm \o mode, env)

BasePool_update(st, pool, env) ==
    BasePool_set_compression(
        BasePool_set_quota(BasePool_validate(st, pool), pool, env), pool, env)

CreateCommand(st, pool, args, env) ==
    LET ran == check_call(st, [cmd |-> "osd pool create", arg |-> pool.name,
                               args |-> args], env, "osd pool create")
    IN  IF Live(ran) THEN [ran EXCEPT !.pools = @ \cup {pool.name}] ELSE ran

\* a create command that carries --bulk from the threshold on
ReplicatedPool__create_BulkAtThreshold(st, pool, env) ==
    CreateCommand(st, pool,
                  <<ToString(AUTOSCALER_DEFAULT_PGS)>>
                  \o (IF pool.percent_data >= BULK_POOL_WEIGHT_THRESHOLD
                      THEN <<"--bulk">> ELSE <<>>)
                  \o (IF pool.profile_name # "" THEN <<pool.profile_name>> ELSE <<>>),
                  env)

ReplicatedPool__create(st, pool, env) ==
    CreateCommand(st, pool,
                  <<ToString(AUTOSCALER_DEFAULT_PGS)>>
                  \o (IF pool.percent_data > BULK_POOL_WEIGHT_THRESHOLD
                      THEN <<"--bulk">> ELSE <<>>)
                  \o (IF pool.profile_name # "" THEN <<pool.profile_name>> ELSE <<>>),
                  env)

Min(a, b) == IF a < b THEN a ELSE b

\* int() of the decimal strings of a stored profile; any other string
\* raises ValueError
MaxChunks == 9

IsDecimal(s) == \E n \in 0..MaxChunks : ToString(n) = s

int(s) == CHOOSE n \in 0..MaxChunks : ToString(n) = s

\* get_erasure_profile: the call and whether it returned a profile; a
\* failed "erasure-code-profile get" returns None
Readable(st, name, env) == "erasure-code-profile get" \notin env /\ Has(st.profiles, name)

get_erasure_profile(st, name, env) ==
    Event(st, [call |-> "get_erasure_profile", pool |-> "", profile |-> name,
               found |-> Readable(st, name, env)])

\* the rest of _create once the profile is read: its k and m size the pool
SizeAndCreate(st, pool, erasure_profile, env, osds) ==
    IF ~IsDecimal(erasure_profile.k) \/ ~IsDecimal(erasure_profile.m)
    THEN Raise(st, "ValueError")
    ELSE CreateCommand(
             get_osds(st, env, osds), pool,
             <<"--pg-num-min="
                 \o ToString(Min(AUTOSCALER_DEFAULT_PGS,
                                 get_pgs(int(erasure_profile.k) + int(erasure_profile.m),
                                         pool.percent_data, osds, 0))),
               ToString(get_pgs(int(erasure_profile.k) + int(erasure_profile.m),
                                pool.percent_data, osds, 0)),
               ToString(get_pgs(int(erasure_profile.k) + int(erasure_profile.m),
                                pool.percent_data, osds, 0)),
               "erasure", pool.erasure_code_profile>>,
             env)

\* an _create that sizes the pool with k = 2 and m = 1 when the profile
\* does not tell
ErasurePool__create_DefaultChunks(st, pool, env, osds) ==
    IF ~Readable(st, pool.erasure_code_profile, env)
    THEN Raise(get_erasure_profile(st, pool.erasure_code_profile, env),
               "PoolCreationError")
    ELSE SizeAndCreate(get_erasure_profile(st, pool.erasure_code_profile, env), pool,
                       st.profiles[pool.erasure_code_profile] @@ [k |-> "2", m |-> "1"],
                       env, osds)

\* a profile that cannot be read or lacks k or m is an error, and int()
\* of its k and m may raise
ErasurePool__create(st, pool, env, osds) ==
    IF ~Readable(st, pool.erasure_code_profile, env)
    THEN Raise(get_erasure_profile(st, pool.erasure_code_profile, env),
               "PoolCreationError")
    ELSE IF ~({"k", "m"} \subseteq DOMAIN st.profiles[pool.erasure_code_profile])
    THEN Raise(get_erasure_profile(st, pool.erasure_code_profile, env),
               "PoolCreationError")
    ELSE SizeAndCreate(get_erasure_profile(st, pool.erasure_code_profile, env), pool,
                       st.profiles[pool.erasure_code_profile], env, osds)

Pool__create(st, pool, env, osds) ==
    IF pool.type = "erasure"
    THEN ErasurePool__create(Call(st, "_create", pool.name), pool, env, osds)
    ELSE ReplicatedPool__create(Call(st, "_create", pool.name), pool, env)

SetReplicas(st, pool, env) ==
    update_pool(st, pool.name, <<<<"size", ToString(pool.replicas)>>>>, env)

Pool__post_create(st, pool, env) ==
    LET entered == Call(st, "_post_create", pool.name)
    IN  IF pool.type = "erasure"
        THEN LET common == BasePool__post_create(entered, pool, env)
             IN  IF pool.allow_ec_overwrites
                 THEN update_pool(common, pool.name,
                                  <<<<"allow_ec_overwrites", "true">>>>, env)
                 ELSE common
        ELSE BasePool__post_create(SetReplicas(entered, pool, env), pool, env)

Pool_update(st, pool, env) ==
    LET entered == Call(st, "update", pool.name)
    IN  IF pool.type = "erasure"
        THEN BasePool_update(entered, pool, env)
        ELSE BasePool_update(SetReplicas(entered, pool, env), pool, env)

\* a create() that does not look whether the pool exists
BasePool_create_Unchecked(st, pool, env, osds) ==
    Pool_update(
        Pool__post_create(
            Pool__create(
                BasePool_validate(
                    Asked(Call(st, "create", pool.name), pool.name, env, "lspools in create"),
                    pool),
                pool, env, osds),
            pool, env),
        pool, env)

\* a create() that creates first and validates afterwards
BasePool_create_ValidatesLate(st, pool, env, osds) ==
    LET asked == Asked(Call(st, "create", pool.name), pool.name, env, "lspools in create")
    IN  IF PoolExists(st, pool.name, env, "lspools in create") THEN asked
        ELSE Pool_update(
                 Pool__post_create(
                     BasePool_validate(Pool__create(asked, pool, env, osds), pool),
                     pool, env),
                 pool, env)

BasePool_create(st, pool, env, osds) ==
    LET asked == Asked(Call(st, "create", pool.name), pool.name, env, "lspools in create")
    IN  IF PoolExists(st, pool.name, env, "lspools in create") THEN asked
        ELSE Pool_update(
                 Pool__post_create(
                     Pool__create(BasePool_validate(asked, pool), pool, env, osds),
                     pool, env),
                 pool, env)
(***************************************************************************)
(* create-pool, step by step: handle_create_pool, handle_replicated_pool   *)
(* and handle_erasure_pool of src/src/ceph_broker.py.  osds is the number  *)
(* of OSD ids that "osd ls" reports.                                       *)
(***************************************************************************)
Construct(st, pool) ==
    Event(st, [call |-> "__init__", pool |-> pool.name, pg_num |-> pool.pg_num])

JoinGroup(st, env) ==
    IF Get(st.req, "group", "") # ""
    THEN add_pool_to_group(st, st.req["name"], st.req["group"], Namespace(st.req), env)
    ELSE st

\* a handler that leaves an existing pool alone
CreateAndUpdate_OnlyNew(st, pool, env, osds) ==
    LET asked == Asked(st, pool.name, env, "lspools in handler")
    IN  IF PoolExists(st, pool.name, env, "lspools in handler")
        THEN asked
        ELSE Pool_update(BasePool_create(asked, pool, env, osds), pool, env)

\* if not pool_exists(...): pool.create(); then pool.update()
CreateAndUpdate(st, pool, env, osds) ==
    LET asked == Asked(st, pool.name, env, "lspools in handler")
    IN  Pool_update(IF PoolExists(st, pool.name, env, "lspools in handler")
                    THEN asked
                    ELSE BasePool_create(asked, pool, env, osds),
                    pool, env)

\* a handler that lists the OSDs and leaves pg_num as requested
CapPgNum_Uncapped(st, env, osds) ==
    IF Get(st.req, "pg_num", 0) = 0 THEN st ELSE get_osds(st, env, osds)

\* the handler's cap of pg_num; the request is updated in place
CapPgNum(st, env, osds) ==
    LET listed == get_osds(st, env, osds)
    IN  IF Get(st.req, "pg_num", 0) = 0 THEN st
        ELSE IF ~Live(listed) \/ osds = 0 THEN listed
        ELSE IF ~Has(st.req, "replicas") THEN Raise(listed, "TypeError")
        ELSE IF st.req["replicas"] = 0 THEN Raise(listed, "ZeroDivisionError")
        ELSE [listed EXCEPT
                 !.req = ("pg_num" :> Min(st.req["pg_num"],
                                          (osds * 100) \div st.req["replicas"])) @@ @]

HandleReplicatedPool(st, env, osds) ==
    LET joined == JoinGroup(CapPgNum(st, env, osds), env)
    IN  IF ~Constructible("replicated", joined.req)
        THEN Return(Call(joined, "ReplicatedPool", "None"), MissingParameter)
        ELSE LET pool == PoolObject("replicated", joined.req)
             IN  CreateAndUpdate(Construct(joined, pool), pool, env, osds)

\* a handler that goes on without the profile
ProfileExists_Assumed(st, name, env) == TRUE

\* erasure_profile_exists: a failed query counts as "does not exist"
ProfileExists(st, name, env) ==
    "erasure-code-profile exists" \notin env /\ Has(st.profiles, name)

HandleErasurePool(st, env, osds) ==
    LET erasure_profile == Get(st.req, "erasure-profile", "default-canonical")
        joined == JoinGroup(st, env)
    IN  IF ~ProfileExists(st, erasure_profile, env)
        THEN Return(joined,
                    ExitError(StrV("erasure-profile " \o erasure_profile
                        \o " does not exist.  Please create it with: create-erasure-profile")))
        ELSE IF ~Constructible("erasure", joined.req)
        THEN Return(Call(joined, "ErasurePool", "None"), MissingParameter)
        ELSE LET pool == PoolObject("erasure", joined.req)
             IN  CreateAndUpdate(Construct(joined, pool), pool, env, osds)

HandleCreatePool(st, env, osds) ==
    IF Get(st.req, "pool-type", "") = "erasure"
    THEN HandleErasurePool(st, env, osds)
    ELSE HandleReplicatedPool(st, env, osds)

HandleDeletePool(st, env) ==
    LET ran == check_call(st, [cmd |-> "osd pool delete", arg |-> st.req["name"]],
                          env, "osd pool delete")
    IN  IF Live(ran) THEN [ran EXCEPT !.pools = @ \ {st.req["name"]}] ELSE ran

(***************************************************************************)
(* create-erasure-profile: handle_create_erasure_profile and               *)
(* create_erasure_profile of src/src/ceph_broker.py.  The handler hands    *)
(* every request.get() result on as a keyword argument, None for a key     *)
(* the request lacks, so no default of create_erasure_profile applies.     *)
(* The cluster keeps of a profile the arguments of the command that set    *)
(* it; the command has no --force, and the cluster refuses to override a   *)
(* profile with different arguments.                                       *)
(***************************************************************************)
IntKeys == {"k", "m", "l", "c", "d"}

\* "{}".format(request.get(key)); str() for the chunk counts
Formatted(request, key) ==
    IF ~Has(request, key) THEN "None"
    ELSE IF key \in IntKeys THEN ToString(request[key])
    ELSE request[key]

\* truth value of request.get(key)
Given(request, key) ==
    /\ Has(request, key)
    /\ IF key \in IntKeys THEN request[key] # 0 ELSE request[key] # ""

Optional(request, key, argument) ==
    IF Given(request, key) THEN <<argument \o "=" \o Formatted(request, key)>> ELSE <<>>

\* what the cluster keeps of a profile
StoredProfile(args, plugin, k, m) == [args |-> args, plugin |-> plugin, k |-> k, m |-> m]

\* the arguments of "osd erasure-code-profile set <name>"
ProfileArguments(request) ==
    LET erasure_plugin_name == Formatted(request, "erasure-type")
    IN  <<"plugin=" \o erasure_plugin_name,
          "k=" \o Formatted(request, "k"),
          "m=" \o Formatted(request, "m")>>
        \o Optional(request, "erasure-technique", "technique")
        \o Optional(request, "failure-domain", "crush-failure-domain")
        \o Optional(request, "device-class", "crush-device-class")
        \o (IF erasure_plugin_name = "lrc"
            THEN Optional(request, "l", "l") \o Optional(request, "crush-locality",
                                                         "crush-locality")
            ELSE <<>>)
        \* durability_estimator is the request's "d", helper_chunks its "c"
        \o (IF erasure_plugin_name = "shec" THEN Optional(request, "d", "c") ELSE <<>>)
        \o (IF erasure_plugin_name = "clay"
            THEN Optional(request, "c", "d") \o Optional(request, "scalar-mds",
                                                         "scalar-mds")
            ELSE <<>>)

\* erasure_profile_exists: "erasure-code-profile get"; a failure of the
\* command reads "does not exist"
ProfileQuery(st, name, env) ==
    Event(st, [cmd |-> "osd erasure-code-profile get", arg |-> name,
               rc |-> IF ProfileExists(st, name, env) THEN 0 ELSE 1])

\* the profile-set command on the cluster
ProfileSet(st, name, request, env) ==
    LET args == ProfileArguments(request)
        refused == Has(st.profiles, name) /\ st.profiles[name].args # args
        rc == IF "erasure-code-profile set" \in env \/ refused THEN 1 ELSE 0
        ran == Event(st, [cmd |-> "osd erasure-code-profile set", arg |-> name,
                          args |-> args, rc |-> rc])
    IN  IF rc # 0 THEN Raise(ran, "CalledProcessError")
        ELSE IF ~Live(ran) THEN ran
        ELSE [ran EXCEPT !.profiles =
                 (name :> StoredProfile(args, Formatted(request, "erasure-type"),
                                        Formatted(request, "k"), Formatted(request, "m")))
                 @@ @]

\* a create_erasure_profile that sets the profile whether it exists or not
create_erasure_profile_Unchecked(st, request, env) ==
    IF ~Has(request, "name") THEN Raise(st, "AssertionError")
    ELSE LET name == request["name"]
             asked == ProfileQuery(st, name, env)
         IN  IF Formatted(request, "erasure-type") = "lrc" /\ ~Given(request, "l")
             THEN Raise(asked, "ValueError")
             ELSE ProfileSet(asked, name, request, env)

create_erasure_profile(st, request, env) ==
    \* validator(value=name, valid_type=str) in erasure_profile_exists
    IF ~Has(request, "name") THEN Raise(st, "AssertionError")
    ELSE LET name == request["name"]
             asked == ProfileQuery(st, name, env)
         IN  IF ProfileExists(st, name, env) THEN asked
             ELSE IF Formatted(request, "erasure-type") = "lrc" /\ ~Given(request, "l")
             THEN Raise(asked, "ValueError")
             ELSE ProfileSet(asked, name, request, env)

HandleCreateErasureProfile(st, env) ==
    Return(create_erasure_profile(st, st.req, env), ExitOk)

(***************************************************************************)
(* The specifications PoolSpec and AclSpec: a sequence of at most          *)
(* MaxRequests handler calls on one cluster.  Of each call, invoked keeps  *)
(* the request as sent and as the handler left it, the pools before the    *)
(* call and the outcome; cmds keeps the method calls and commands of all   *)
(* calls, each marked with the number i of its call.                       *)
(***************************************************************************)
MaxRequests == 2

Recorded(st, what, sent) ==
    /\ idx' = idx + 1
    /\ invoked' = Append(invoked,
                         [i |-> idx + 1, what |-> what, sent |-> sent, req |-> st.req,
                          before |-> pools, known |-> profiles,
                          acl |-> [groups |-> groups, services |-> services],
                          r |-> IF Live(st) THEN st.ret ELSE ExcV(st.raised)])
    /\ cmds' = cmds \o [n \in 1..Len(st.tr) |-> [i |-> idx + 1] @@ st.tr[n]]
    /\ reqs' = st.req
    /\ ret' = IF Live(st) THEN st.ret ELSE ret
    /\ exc' = IF Live(st) THEN exc ELSE ExcV(st.raised)
    /\ pools' = st.pools
    /\ profiles' = st.profiles
    /\ groups' = st.groups
    /\ services' = st.services
    /\ UNCHANGED <<pc, v1ret, resp, out, keyring, cache, default_caps, fsys>>

\* a call made outside the relation hooks leaves the relation as it is
Finish(st, what, sent) ==
    /\ Recorded(st, what, sent)
    /\ UNCHANGED <<relation_data, processed>>

ReplicatedRequest == ("op" :> "create-pool") @@ ("name" :> "r") @@ ("replicas" :> 3)

ErasureRequest ==
    ("op" :> "create-pool") @@ ("pool-type" :> "erasure") @@ ("name" :> "e")

RequestedPgNums == {8, 64, 200}

PoolRequests ==
    {ReplicatedRequest,
     ReplicatedRequest @@ ("weight" :> 40) @@ ("max-bytes" :> 1000)
         @@ ("compression-mode" :> "force"),
     ReplicatedRequest @@ ("compression-mode" :> "fast"),
     \* a weight at the bulk threshold
     ReplicatedRequest @@ ("weight" :> BULK_POOL_WEIGHT_THRESHOLD),
     ("op" :> "create-pool") @@ ("name" :> "r"),
     ("op" :> "create-pool") @@ ("name" :> "r") @@ ("pg_num" :> 8),
     ErasureRequest @@ ("erasure-profile" :> "ec"),
     ErasureRequest @@ ("erasure-profile" :> "ec") @@ ("rbd-mirroring-mode" :> "both")
         @@ ("max-bytes" :> 1000),
     ErasureRequest @@ ("erasure-profile" :> "gone") @@ ("group" :> "g"),
     ErasureRequest,
     ("op" :> "create-pool") @@ ("pool-type" :> "erasure") @@ ("erasure-profile" :> "ec")}
    \cup {ReplicatedRequest @@ ("pg_num" :> n) : n \in RequestedPgNums}
    \* the request of TestBroker.test_replicated_pool
    \cup {("op" :> "create-pool") @@ ("name" :> "r") @@ ("pg_num" :> 4)
              @@ ("replicas" :> 200)}

PoolInit ==
    /\ reqs = <<>>
    /\ pc = "idle"
    /\ idx = 0
    /\ ret = None
    /\ exc = None
    /\ invoked = <<>>
    /\ v1ret = None
    /\ resp = None
    /\ out = None
    /\ keyring = <<>>
    /\ cache = <<>>
    /\ default_caps = DefaultCaps
    /\ relation_data = <<>>
    /\ processed = <<>>
    /\ cmds = <<>>
    /\ pools = {}
    /\ profiles = ("ec" :> StoredProfile(<<"plugin=jerasure", "k=2", "m=1">>,
                                         "jerasure", "2", "1"))
    /\ fsys = <<>>
    /\ groups = <<>>
    /\ services = <<>>

\* a create-pool request reaches handle_create_pool
CreatePoolRequest ==
    /\ idx < MaxRequests
    /\ \E request \in PoolRequests, env \in Environments, osds \in OsdCounts :
          Finish(HandleCreatePool(StartRun(request), env, osds), "create-pool",
                 request)

\* a delete-pool request reaches delete_pool
DeletePoolRequest ==
    /\ idx < MaxRequests
    /\ \E name \in {"r", "e"}, env \in Environments :
          LET request == ("op" :> "delete-pool") @@ ("name" :> name)
          IN  Finish(HandleDeletePool(StartRun(request), env), "delete-pool",
                     request)

\* create() is called on a pool object built from a request
PoolCreateCall ==
    /\ idx < MaxRequests
    /\ \E request \in PoolRequests, env \in Environments, osds \in OsdCounts :
          /\ Constructible(Get(request, "pool-type", "replicated"), request)
          /\ LET pool == PoolObject(Get(request, "pool-type", "replicated"), request)
             IN  Finish(BasePool_create(StartRun(request), pool, env, osds), "create",
                        request)

PoolNext == CreatePoolRequest \/ DeletePoolRequest \/ PoolCreateCall

PoolSpec == PoolInit /\ [][PoolNext]_vars

(***************************************************************************)
(* AclSpec: add-permissions-to-key requests, create-pool requests that     *)
(* name a group, and calls of add_pool_to_group, on a key store that is    *)
(* empty or already holds the group g with two services.                   *)
(***************************************************************************)
GroupG == [pools |-> <<"p">>, services |-> <<"svc", "app">>]

StoredService(level) ==
    [group_names |-> <<[k |-> level, v |-> <<"g">>]>>, groups |-> <<>>]

KeyStores ==
    {[groups |-> <<>>, services |-> <<>>],
     [groups |-> ("g" :> GroupG),
      services |-> ("svc" :> StoredService("rwx")) @@ ("app" :> StoredService("r"))]}

Namespaces == {<<>>, ("group-namespace" :> "ns")}

PermissionRequests ==
    {("op" :> "add-permissions-to-key") @@ ("name" :> "svc") @@ ("group" :> "g")
        @@ ns @@ level :
        ns \in Namespaces, level \in {<<>>, ("group-permission" :> "r")}}
    \cup {("op" :> "add-permissions-to-key") @@ ("name" :> "svc") @@ ("group" :> "h")
            @@ ("object-prefix-permissions" :> <<[k |-> "rwx", v |-> <<"a_">>]>>)}

GroupPoolRequests == {ReplicatedRequest @@ ("group" :> "g") @@ ns : ns \in Namespaces}

KeyPermissionRequests ==
    {("op" :> "set-key-permissions") @@ ("client" :> "svc")
        @@ ("permissions" :> <<"mon", "allow r">>),
     ("op" :> "set-key-permissions") @@ ("client" :> "svc")}

AclInit ==
    /\ reqs = <<>>
    /\ pc = "idle"
    /\ idx = 0
    /\ ret = None
    /\ exc = None
    /\ invoked = <<>>
    /\ v1ret = None
    /\ resp = None
    /\ out = None
    /\ keyring = <<>>
    /\ cache = <<>>
    /\ default_caps = DefaultCaps
    /\ relation_data = <<>>
    /\ processed = <<>>
    /\ cmds = <<>>
    /\ pools = {}
    /\ profiles = <<>>
    /\ fsys = <<>>
    /\ \E store \in KeyStores : groups = store.groups /\ services = store.services

\* an add-permissions-to-key request reaches handle_add_permissions_to_key
AddPermissionsRequest ==
    /\ idx < MaxRequests
    /\ \E request \in PermissionRequests, env \in Environments :
          Finish(HandleAddPermissionsToKey(StartRun(request), env),
                 "add-permissions-to-key", request)

\* a create-pool request that names a group reaches handle_create_pool
CreateGroupPoolRequest ==
    /\ idx < MaxRequests
    /\ \E request \in GroupPoolRequests, env \in Environments, osds \in OsdCounts :
          Finish(HandleCreatePool(StartRun(request), env, osds), "create-pool", request)

\* add_pool_to_group is called with a pool, a group and maybe a namespace
AddPoolToGroupCall ==
    /\ idx < MaxRequests
    /\ \E pool \in {"r", "q"}, ns \in Namespaces, env \in Environments :
          LET request == ("name" :> pool) @@ ("group" :> "g") @@ ns
          IN  Finish(add_pool_to_group(StartRun(request), pool, "g", Namespace(request),
                                       env),
                     "add_pool_to_group", request)

\* a set-key-permissions request reaches handle_set_key_permissions
SetKeyPermissionsRequest ==
    /\ idx < MaxRequests
    /\ \E request \in KeyPermissionRequests, env \in Environments :
          Finish(HandleSetKeyPermissions(StartRun(request), env),
                 "set-key-permissions", request)

AclNext ==
    \/ AddPermissionsRequest
    \/ CreateGroupPoolRequest
    \/ AddPoolToGroupCall
    \/ SetKeyPermissionsRequest

AclSpec == AclInit /\ [][AclNext]_vars

(***************************************************************************)
(* ProfileSpec: a sequence of at most MaxProfileRequests                   *)
(* create-erasure-profile requests on a cluster without profiles.          *)
(***************************************************************************)
MaxProfileRequests == 3

ProfileBase(name, type) ==
    ("op" :> "create-erasure-profile") @@ ("name" :> name) @@ ("erasure-type" :> type)
    @@ ("k" :> 2) @@ ("m" :> 1)

ProfileRequests ==
    {\* no erasure-type
     ("op" :> "create-erasure-profile") @@ ("name" :> "x") @@ ("k" :> 2) @@ ("m" :> 1),
     ProfileBase("x", "jerasure"),
     ("k" :> 3) @@ ("m" :> 2) @@ ProfileBase("x", "jerasure"),
     ProfileBase("y", "jerasure") @@ ("erasure-technique" :> "reed_sol_van")
         @@ ("failure-domain" :> "host") @@ ("device-class" :> "ssd"),
     \* lrc without and with its locality
     ProfileBase("x", "lrc"),
     ProfileBase("y", "lrc") @@ ("l" :> 3) @@ ("crush-locality" :> "rack"),
     ProfileBase("y", "shec") @@ ("c" :> 2) @@ ("d" :> 4),
     ProfileBase("y", "clay") @@ ("c" :> 2) @@ ("d" :> 4) @@ ("scalar-mds" :> "isa"),
     \* no name
     ("op" :> "create-erasure-profile") @@ ("erasure-type" :> "jerasure")
         @@ ("k" :> 2) @@ ("m" :> 1)}

ProfileEnvironments ==
    SUBSET {"erasure-code-profile exists", "erasure-code-profile set"}

ProfileInit ==
    /\ reqs = <<>>
    /\ pc = "idle"
    /\ idx = 0
    /\ ret = None
    /\ exc = None
    /\ invoked = <<>>
    /\ v1ret = None
    /\ resp = None
    /\ out = None
    /\ keyring = <<>>
    /\ cache = <<>>
    /\ default_caps = DefaultCaps
    /\ relation_data = <<>>
    /\ processed = <<>>
    /\ cmds = <<>>
    /\ pools = {}
    /\ profiles = <<>>
    /\ fsys = <<>>
    /\ groups = <<>>
    /\ services = <<>>

\* a create-erasure-profile request reaches handle_create_erasure_profile
CreateErasureProfileRequest ==
    /\ idx < MaxProfileRequests
    /\ \E request \in ProfileRequests, env \in ProfileEnvironments :
          Finish(HandleCreateErasureProfile(StartRun(request), env),
                 "create-erasure-profile", request)

ProfileNext == CreateErasureProfileRequest

ProfileSpec == ProfileInit /\ [][ProfileNext]_vars

(***************************************************************************)
(* BatchSpec: process_requests on an envelope of at most MaxBatchOps       *)
(* operations, handler by handler, and the same envelope delivered a       *)
(* second time.  The operations are create-pool, create-erasure-profile    *)
(* and add-permissions-to-key.                                             *)
(***************************************************************************)
MaxBatchOps == 2

\* fn(request=req, service=svc) for the handlers of these operations
CallHandler(st, env, osds) ==
    LET fn == BrokerJumpTable[st.req["op"]]
    IN  IF fn = "handle_create_pool" THEN HandleCreatePool(st, env, osds)
        ELSE IF fn = "handle_create_erasure_profile"
        THEN HandleCreateErasureProfile(st, env)
        ELSE IF fn = "handle_add_permissions_to_key"
        THEN HandleAddPermissionsToKey(st, env)
        ELSE IF fn = "handle_set_key_permissions" THEN HandleSetKeyPermissions(st, env)
        ELSE IF fn = "delete_pool" THEN HandleDeletePool(st, env)
        ELSE st

\* a loop that runs the operations last to first
RECURSIVE RunOps_Backwards(_, _, _, _, _)
RunOps_Backwards(st, ops, k, env, osds) ==
    IF ~Live(st) THEN [st |-> st, ops |-> ops]
    ELSE IF k > Len(ops) THEN [st |-> Return(st, V1Result(st.ret)), ops |-> ops]
    ELSE IF ~HasHandler(ops[k])
    THEN [st |-> Return(st, ExitError(StrV(UnknownOperationMsg(Tag(ops[k]))))),
          ops |-> ops]
    ELSE LET later == RunOps_Backwards(st, ops, k + 1, env, osds)
             entered == Event(later.st, [call |-> "fn", pool |-> "", k |-> k,
                                         op |-> Tag(ops[k])])
             after == CallHandler([entered EXCEPT !.req = ops[k], !.ret = None],
                                  env, osds)
             returned == Event(after, [call |-> "ret", pool |-> "", k |-> k,
                                       r |-> after.ret])
         IN  IF ~Live(later.st) THEN later
             ELSE [st |-> Return(returned, V1Result(after.ret)),
                   ops |-> [later.ops EXCEPT ![k] = after.req]]

\* the rest of the loop once handler k has returned: what it returned is
\* marked in the trace, and the request is handed on as the handler left it
RECURSIVE RunOps(_, _, _, _, _)
NextOp(after, ops, k, env, osds) ==
    RunOps(Event(after, [call |-> "ret", pool |-> "", k |-> k, r |-> after.ret]),
           [ops EXCEPT ![k] = after.req], k + 1, env, osds)

\* the loop of process_requests_v1 from operation k on; the entry of
\* handler k is marked in the trace
RunOps(st, ops, k, env, osds) ==
    IF ~Live(st) THEN [st |-> st, ops |-> ops]
    ELSE IF k > Len(ops) THEN [st |-> Return(st, V1Result(st.ret)), ops |-> ops]
    ELSE IF ~HasHandler(ops[k])
    THEN [st |-> Return(st, ExitError(StrV(UnknownOperationMsg(Tag(ops[k]))))),
          ops |-> ops]
    ELSE NextOp(CallHandler([Event(st, [call |-> "fn", pool |-> "", k |-> k,
                                        op |-> Tag(ops[k])])
                                EXCEPT !.req = ops[k], !.ret = None], env, osds),
                ops, k, env, osds)

\* "Unexpected error occurred while processing requests: %s" % reqs, with
\* the envelope that the message renders
UnexpectedError(envelope) ==
    [str |-> "Unexpected error occurred while processing requests: ",
     reqs |-> envelope]

\* the end of process_requests: the response of the version handler, or
\* the except branch that turns any exception into a generic error
Conclude(ran, envelope, left) ==
    IF Live(ran)
    THEN [ran EXCEPT !.req = left, !.ret = EchoRequestId(@, envelope)]
    ELSE [ran EXCEPT !.req = left, !.raised = "",
                     !.tr = Append(@, [call |-> "except", pool |-> "",
                                       exc |-> ran.raised]),
                     !.ret = ExitError(UnexpectedError(left))]

\* the envelope as the handlers left it
Handed(ran, envelope) ==
    Conclude(ran.st, envelope, [envelope EXCEPT !["ops"] = ran.ops])

\* process_requests on an api-version-1 envelope
ProcessRequests(st, envelope, env, osds) ==
    Handed(RunOps(st, envelope["ops"], 1, env, osds), envelope)

BatchOps ==
    {ReplicatedRequest,
     ("op" :> "create-pool") @@ ("name" :> "r"),
     ("op" :> "create-pool") @@ ("replicas" :> 3),
     ReplicatedRequest @@ ("compression-mode" :> "fast"),
     ReplicatedRequest @@ ("group" :> "g"),
     ErasureRequest @@ ("erasure-profile" :> "x"),
     ErasureRequest @@ ("erasure-profile" :> "x") @@ ("rbd-mirroring-mode" :> "both"),
     ("op" :> "create-pool") @@ ("pool-type" :> "erasure") @@ ("erasure-profile" :> "x"),
     ProfileBase("x", "jerasure"),
     ("op" :> "add-permissions-to-key") @@ ("name" :> "svc") @@ ("group" :> "g")}

BatchEnvelopes ==
    {("api-version" :> IntV(1)) @@ ("request-id" :> "1ef5aede") @@ ("ops" :> ops) :
        ops \in UNION {[1..n -> BatchOps] : n \in 1..MaxBatchOps}}

BatchEnvironments == {{}, {"osd pool create"}, {"config-key put"}}

BatchInit ==
    /\ reqs = <<>>
    /\ pc = "idle"
    /\ idx = 0
    /\ ret = None
    /\ exc = None
    /\ invoked = <<>>
    /\ v1ret = None
    /\ resp = None
    /\ out = None
    /\ keyring = <<>>
    /\ cache = <<>>
    /\ default_caps = DefaultCaps
    /\ relation_data = <<>>
    /\ processed = <<>>
    /\ cmds = <<>>
    /\ pools = {}
    /\ profiles = <<>>
    /\ fsys = <<>>
    /\ groups = <<>>
    /\ services = <<>>

\* an envelope reaches process_requests
Deliver ==
    /\ idx = 0
    /\ \E envelope \in BatchEnvelopes, env \in BatchEnvironments, osds \in OsdCounts :
          Finish(ProcessRequests(StartRun(envelope), envelope, env, osds),
                 "process_requests", envelope)

\* the host delivers the envelope once more
Redeliver ==
    /\ idx = 1
    /\ \E env \in BatchEnvironments, osds \in OsdCounts :
          Finish(ProcessRequests(StartRun(invoked[1].sent), invoked[1].sent, env, osds),
                 "process_requests", invoked[1].sent)

BatchNext == Deliver \/ Redeliver

BatchSpec == BatchInit /\ [][BatchNext]_vars

(***************************************************************************)
(* The auth keys: ceph_auth_get, get_named_key and remove_named_key of     *)
(* src/src/ceph.py within one process.  ceph_auth_get is wrapped in        *)
(* functools.lru_cache(): it runs only for a name the cache does not       *)
(* hold, and what it returns, None included, is cached (the cache holds    *)
(* 128 names, more than the model has).  The cluster answers "auth get"    *)
(* with the keyring entry of the entity; a key that is created is new.     *)
(* A key run is a record [keyring, cache, default_caps, tr, raised, ret].  *)
(* The capabilities of a call are a sequence of [k, v] pairs in the order  *)
(* of the dict; <<>> stands for a caps or pool_list that is None or empty. *)
(***************************************************************************)
MaxKeyCalls == 4

KeyNames == {"a", "b"}

\* parse_key of the keyring entry that "auth get" and "auth get-or-create"
\* print: the value of its "key = " line
parse_key(output) == IntV(output.key)

ceph_auth_get(kst, key_name, ok) ==
    IF Has(kst.cache, key_name) THEN [kst EXCEPT !.ret = kst.cache[key_name]]
    ELSE LET found == ok /\ Has(kst.keyring, key_name)
             result == IF found
                       THEN parse_key([entity |-> key_name, key |-> kst.keyring[key_name]])
                       ELSE None
         IN  [kst EXCEPT !.tr = Append(@, [cmd |-> "auth get", arg |-> key_name,
                                           rc |-> IF found THEN 0 ELSE 1]),
                         !.cache = (key_name :> result) @@ @,
                         !.ret = result]

\* subcaps[0] = subcaps[0] + " " + pools
WithPools(subcaps, pool_list) ==
    [subcaps EXCEPT ![1] = @ \o " "
        \o Join([i \in 1..Len(pool_list) |-> "pool=" \o pool_list[i]], " ")]

\* the caps object after the loop of get_named_key: the first osd
\* capability is extended in place when a pool_list is given
Extended(caps, pool_list) ==
    [n \in 1..Len(caps) |->
        IF caps[n].k = "osd" /\ pool_list # <<>>
        THEN [caps[n] EXCEPT !.v = WithPools(@, pool_list)]
        ELSE caps[n]]

\* cmd.extend([subsystem, "; ".join(subcaps)]) for every subsystem
CapsArguments(caps) ==
    Flatten([n \in 1..Len(caps) |-> <<caps[n].k, Join(caps[n].v, "; ")>>])

\* get_named_key; fresh is the key the cluster makes up for a new entity.
\* caps = caps or _default_caps names the module's object itself, so the
\* loop changes _default_caps when the caller gave no caps.
get_named_key(kst, name, caps, pool_list, getOk, createOk, fresh) ==
    LET entered == [kst EXCEPT !.tr = Append(@, [call |-> "get_named_key", pool |-> "",
                                                 name |-> name, caps |-> caps,
                                                 pool_list |-> pool_list])]
        got == ceph_auth_get(entered, name, getOk)
        extended == Extended(IF caps = <<>> THEN kst.default_caps ELSE caps, pool_list)
        cleared == [got EXCEPT !.cache = <<>>,
                               !.default_caps = IF caps = <<>> THEN extended ELSE @]
        key == IF Has(kst.keyring, name) THEN kst.keyring[name] ELSE fresh
    IN  IF got.ret # None THEN got
        ELSE IF ~createOk
        THEN [cleared EXCEPT !.tr = Append(@, [cmd |-> "auth get-or-create",
                                               arg |-> name, rc |-> 1,
                                               caps |-> CapsArguments(extended)]),
                             !.raised = "CalledProcessError"]
        ELSE [cleared EXCEPT !.tr = Append(@, [cmd |-> "auth get-or-create",
                                               arg |-> name, rc |-> 0,
                                               caps |-> CapsArguments(extended)]),
                             !.keyring = (name :> key) @@ @,
                             !.ret = parse_key([entity |-> name, key |-> key])]

remove_named_key(kst, name, ok) ==
    IF ~ok
    THEN [kst EXCEPT !.tr = Append(@, [cmd |-> "auth del", arg |-> name, rc |-> 1]),
                     !.raised = "CalledProcessError"]
    ELSE [kst EXCEPT !.tr = Append(@, [cmd |-> "auth del", arg |-> name, rc |-> 0]),
                     !.keyring = [e \in DOMAIN @ \ {name} |-> @[e]],
                     !.ret = None]

StartKeyRun ==
    [keyring |-> keyring, cache |-> cache, default_caps |-> default_caps,
     tr |-> <<>>, raised |-> "", ret |-> None]

\* the call is over: invoked keeps what it was, what it gave and the
\* cluster's keys after it
FinishKeyRun(kst, what, name) ==
    /\ idx' = idx + 1
    /\ invoked' = Append(invoked,
                         [i |-> idx + 1, what |-> what, name |-> name,
                          r |-> IF kst.raised = "" THEN kst.ret ELSE ExcV(kst.raised),
                          after |-> kst.keyring])
    /\ cmds' = cmds \o [n \in 1..Len(kst.tr) |-> [i |-> idx + 1] @@ kst.tr[n]]
    /\ keyring' = kst.keyring
    /\ cache' = kst.cache
    /\ default_caps' = kst.default_caps
    /\ UNCHANGED <<reqs, pc, ret, exc, v1ret, resp, out, relation_data, processed>>
    /\ UNCHANGED cluster

KeyInit ==
    /\ reqs = <<>>
    /\ pc = "idle"
    /\ idx = 0
    /\ ret = None
    /\ exc = None
    /\ invoked = <<>>
    /\ v1ret = None
    /\ resp = None
    /\ out = None
    /\ cmds = <<>>
    /\ pools = {}
    /\ profiles = <<>>
    /\ fsys = <<>>
    /\ groups = <<>>
    /\ services = <<>>
    /\ keyring \in {<<>>, ("a" :> 0)}
    /\ cache = <<>>
    /\ default_caps = DefaultCaps
    /\ relation_data = <<>>
    /\ processed = <<>>

CephAuthGet ==
    /\ idx < MaxKeyCalls
    /\ \E name \in KeyNames, ok \in BOOLEAN :
          FinishKeyRun(ceph_auth_get(StartKeyRun, name, ok), "ceph_auth_get", name)

GetNamedKey ==
    /\ idx < MaxKeyCalls
    /\ \E name \in KeyNames, getOk \in BOOLEAN, createOk \in BOOLEAN :
          FinishKeyRun(get_named_key(StartKeyRun, name, <<>>, <<>>, getOk, createOk,
                                     idx + 1),
                       "get_named_key", name)

RemoveNamedKey ==
    /\ idx < MaxKeyCalls
    /\ \E name \in KeyNames, ok \in BOOLEAN :
          FinishKeyRun(remove_named_key(StartKeyRun, name, ok), "remove_named_key",
                       name)

KeyNext == CephAuthGet \/ GetNamedKey \/ RemoveNamedKey

KeySpec == KeyInit /\ [][KeyNext]_vars

(***************************************************************************)
(* KeyCapsSpec: at most MaxCapsCalls calls of get_named_key with the       *)
(* default or the caller's own capabilities, with and without a pool       *)
(* list, and of remove_named_key, in one process.  "auth get" and          *)
(* "auth del" work; the creation of a key may fail.                        *)
(***************************************************************************)
MaxCapsCalls == 3

OwnCaps == <<[k |-> "mon", v |-> <<"allow r">>], [k |-> "osd", v |-> <<"allow r">>]>>

KeyCapsInit ==
    /\ reqs = <<>>
    /\ pc = "idle"
    /\ idx = 0
    /\ ret = None
    /\ exc = None
    /\ invoked = <<>>
    /\ v1ret = None
    /\ resp = None
    /\ out = None
    /\ cmds = <<>>
    /\ pools = {}
    /\ profiles = <<>>
    /\ fsys = <<>>
    /\ groups = <<>>
    /\ services = <<>>
    /\ keyring = <<>>
    /\ cache = <<>>
    /\ default_caps = DefaultCaps
    /\ relation_data = <<>>
    /\ processed = <<>>

GetNamedKeyWithCaps ==
    /\ idx < MaxCapsCalls
    /\ \E name \in KeyNames, caps \in {<<>>, OwnCaps}, pool_list \in {<<>>, <<"p">>},
          createOk \in BOOLEAN :
          FinishKeyRun(get_named_key(StartKeyRun, name, caps, pool_list, TRUE, createOk,
                                     idx + 1),
                       "get_named_key", name)

RemoveKey ==
    /\ idx < MaxCapsCalls
    /\ \E name \in KeyNames :
          FinishKeyRun(remove_named_key(StartKeyRun, name, TRUE), "remove_named_key",
                       name)

KeyCapsNext == GetNamedKeyWithCaps \/ RemoveKey

KeyCapsSpec == KeyCapsInit /\ [][KeyCapsNext]_vars

(***************************************************************************)
(* ErasureSpec: at most MaxErasureCalls calls of create() on erasure pool  *)
(* objects, on a cluster whose profiles are complete (ec), lack k or m     *)
(* (nok, nom) or hold a k that is no number (odd).                         *)
(***************************************************************************)
MaxErasureCalls == 2

ErasureProfiles ==
    ("ec" :> StoredProfile(<<"plugin=jerasure", "k=2", "m=1">>, "jerasure", "2", "1"))
    @@ ("nok" :> [args |-> <<"plugin=jerasure", "m=1">>, plugin |-> "jerasure", m |-> "1"])
    @@ ("nom" :> [args |-> <<"plugin=jerasure", "k=2">>, plugin |-> "jerasure", k |-> "2"])
    @@ ("odd" :> StoredProfile(<<"plugin=jerasure", "k=None", "m=1">>, "jerasure",
                               "None", "1"))

ErasureOps ==
    {ErasureRequest @@ ("erasure-profile" :> name) : name \in {"ec", "nok", "nom", "odd", "gone"}}
    \cup {ErasureRequest,
          ErasureRequest @@ ("erasure-profile" :> "ec") @@ ("weight" :> 100),
          ("op" :> "create-pool") @@ ("pool-type" :> "erasure") @@ ("name" :> "f")
              @@ ("erasure-profile" :> "ec") @@ ("weight" :> 40)}

ErasureEnvironments ==
    SUBSET {"erasure-code-profile get", "osd ls", "osd pool create"}

ErasureInit ==
    /\ reqs = <<>>
    /\ pc = "idle"
    /\ idx = 0
    /\ ret = None
    /\ exc = None
    /\ invoked = <<>>
    /\ v1ret = None
    /\ resp = None
    /\ out = None
    /\ keyring = <<>>
    /\ cache = <<>>
    /\ default_caps = DefaultCaps
    /\ relation_data = <<>>
    /\ processed = <<>>
    /\ cmds = <<>>
    /\ pools = {}
    /\ profiles = ErasureProfiles
    /\ fsys = <<>>
    /\ groups = <<>>
    /\ services = <<>>

\* create() is called on an erasure pool object built from a request
ErasureCreateCall ==
    /\ idx < MaxErasureCalls
    /\ \E request \in ErasureOps, env \in ErasureEnvironments, osds \in OsdCounts :
          Finish(BasePool_create(StartRun(request), PoolObject("erasure", request),
                                 env, osds),
                 "create", request)

ErasureNext == ErasureCreateCall

ErasureSpec == ErasureInit /\ [][ErasureNext]_vars

(***************************************************************************)
(* The ceph relation of the provider.  relation_data maps a unit to its    *)
(* data bag; a client unit writes its request into its own bag, and the    *)
(* relation-changed hook of this unit runs _on_relation_changed,           *)
(* _handle_client_relation, the process_request event (emit runs the       *)
(* observer before it returns), _on_process_request and                    *)
(* set_broker_response.  A bag value is a string: StrV(s) for plain text,  *)
(* JsonV(j) for the text json.dumps gives for j.                           *)
(***************************************************************************)
MaxRelationEvents == 4

ThisUnit == "microceph/0"

ClientUnits == {"client/0"}

\* name.replace("/", "-")
Dashed(name) == CASE name = "client/0" -> "client-0"
                  [] name = "microceph/0" -> "microceph-0"
                  [] OTHER -> name

\* "broker-rsp-" + dashed
ResponseKey(dashed) == CASE dashed = "client-0" -> "broker-rsp-client-0"
                         [] dashed = "microceph-0" -> "broker-rsp-microceph-0"
                         [] OTHER -> "broker-rsp-"

\* what a client may leave under broker_req: an envelope with or without a
\* request-id, or text that is no JSON
ClientRequests ==
    {JsonV(("api-version" :> IntV(1)) @@ ("request-id" :> id)
           @@ ("ops" :> <<ReplicatedRequest>>)) : id \in {"r1", "r2"}}
    \cup {JsonV(("api-version" :> IntV(1)) @@ ("ops" :> <<ReplicatedRequest>>)),
          StrV("junk")}

RelationEnvironments == {{}, {"osd pool create"}}

\* the unit-name of a bag, the name of the unit when the bag has none
UnitNameOf(status, unit) ==
    IF Has(status, "unit-name") THEN status["unit-name"].str ELSE unit

_req_already_treated(request_id, data, req_unit) ==
    LET status == data[req_unit]
        response_key == ResponseKey(Dashed(UnitNameOf(status, req_unit)))
    IN  /\ Has(status, response_key)
        /\ Has(status[response_key], "json")
        /\ Has(status[response_key].json, "request-id")
        /\ status[response_key].json["request-id"] = request_id

\* the id as StrV; None for a request whose id cannot be read
_get_broker_req_id(request) ==
    IF Has(request, "json") /\ Has(request.json, "request-id")
    THEN StrV(request.json["request-id"]) ELSE None

\* relation.data[self.this_unit][k] = str(v) for the ceph_info and the
\* response; the id joins _stored.processed
set_broker_response(broker_req_id, response, ceph_info) ==
    /\ processed' = Append(processed, broker_req_id)
    /\ relation_data' = [relation_data EXCEPT ![ThisUnit] = response @@ ceph_info @@ @]

\* process_requests on the request of the event, then the response under
\* the key of the client unit; a response json.dumps refuses ends the hook
\* with the TypeError
_on_process_request(st, broker_req, broker_req_id, client_unit_name) ==
    /\ Recorded(st, "process_requests", broker_req)
    /\ IF Encodable(st.ret)
       THEN set_broker_response(broker_req_id,
                                ResponseKey(client_unit_name) :> JsonV(st.ret),
                                "auth" :> StrV("cephx"))
       ELSE UNCHANGED <<relation_data, processed>>

\* the hook ends without an event: only the count of hooks moves on
Ignored ==
    /\ idx' = idx + 1
    /\ UNCHANGED <<reqs, pc, ret, exc, invoked, v1ret, resp, out, cmds,
                   keyring, cache, default_caps, relation_data, processed>>
    /\ UNCHANGED cluster

_handle_client_relation(unit, leader, env, osds) ==
    LET settings == relation_data[unit]
        broker_req_id == _get_broker_req_id(settings["broker_req"])
    IN  IF ~Has(settings, "broker_req") THEN Ignored
        ELSE IF broker_req_id = None THEN Ignored
        ELSE IF ~leader THEN Ignored
        ELSE IF _req_already_treated(broker_req_id.str, relation_data, unit) THEN Ignored
        ELSE _on_process_request(
                 ProcessRequests(StartRun(settings["broker_req"].json),
                                 settings["broker_req"].json, env, osds),
                 settings["broker_req"].json, broker_req_id.str, Dashed(UnitNameOf(settings, unit)))

RelationInit ==
    /\ reqs = <<>>
    /\ pc = "idle"
    /\ idx = 0
    /\ ret = None
    /\ exc = None
    /\ invoked = <<>>
    /\ v1ret = None
    /\ resp = None
    /\ out = None
    /\ keyring = <<>>
    /\ cache = <<>>
    /\ default_caps = DefaultCaps
    /\ relation_data = [u \in ClientUnits \cup {ThisUnit} |-> <<>>]
    /\ processed = <<>>
    /\ cmds = <<>>
    /\ pools = {}
    /\ profiles = <<>>
    /\ fsys = <<>>
    /\ groups = <<>>
    /\ services = <<>>

\* a client unit writes a request into its bag
ClientWrites ==
    /\ idx < MaxRelationEvents
    /\ \E unit \in ClientUnits, request \in ClientRequests :
          relation_data' = [relation_data EXCEPT ![unit] = ("broker_req" :> request) @@ @]
    /\ idx' = idx + 1
    /\ UNCHANGED <<reqs, pc, ret, exc, invoked, v1ret, resp, out, cmds,
                   keyring, cache, default_caps, processed>>
    /\ UNCHANGED cluster

\* relation-joined or relation-changed for a client unit; the event is
\* deferred while the service is not ready or there is no OSD
_on_relation_changed ==
    /\ idx < MaxRelationEvents
    /\ \E unit \in ClientUnits, ready \in BOOLEAN, leader \in BOOLEAN,
          env \in RelationEnvironments, osds \in OsdCounts :
          IF ~ready \/ osds = 0 THEN Ignored
          ELSE _handle_client_relation(unit, leader, env, osds)

RelationNext == ClientWrites \/ _on_relation_changed

RelationSpec == RelationInit /\ [][RelationNext]_vars

(***************************************************************************)
(* Vocabulary of the properties.                                           *)
(***************************************************************************)
Version == IF Has(reqs, "api-version") THEN reqs["api-version"] ELSE None

\* an api-version-1 envelope with an operation list
IsV1Envelope == Version = IntV(1) /\ Has(reqs, "ops")

\* process_requests_v1 has returned (it did not raise)
V1Returned ==
    IsV1Envelope /\ pc \in {"v1_returned", "responded", "done"} /\ exc = None

\* process_requests has built its result
Responded == pc \in {"responded", "done"}

Unknowns == {i \in 1..Len(reqs["ops"]) : ~HasHandler(reqs["ops"][i])}

Least(S) == CHOOSE i \in S : \A j \in S : i <= j

Field(d, k, v) == k \in DOMAIN d /\ d[k] = v

IsErrorResult(r) == Field(r, "exit-code", 1)

\* the handlers called are those of operations 1..n, once each, in order
InvokedExactly(n) ==
    /\ Len(invoked) = n
    /\ \A j \in 1..n : invoked[j].i = j

LastResult == invoked[Len(invoked)].r

ClusterUntouched ==
    /\ cmds = <<>>
    /\ pools = InitialPools
    /\ profiles = <<>>
    /\ fsys = <<>>
    /\ groups = <<>>
    /\ services = <<>>

C4_StopsAtFirstFailure ==
    (pc = "done" /\ IsV1Envelope) =>
        \A j \in 1..Len(invoked) :
            (IsErrorResult(invoked[j].r) \/ Has(invoked[j].r, "exc")) =>
                /\ j = Len(invoked)
                /\ ~Field(resp, "exit-code", 0)

(***************************************************************************)
(* C5.  Claim as stated: if every operation of an api-version-1 envelope   *)
(* completes without raising, the envelope result is exactly               *)
(* {exit-code: 0}.                                                         *)
(***************************************************************************)
C5_Original ==
    (V1Returned /\ Unknowns = {}) => v1ret = ("exit-code" :> 0)

\* C5 as amended: if every operation completes without raising, the result
\* is exactly {exit-code: 0} when the last handler returned no result of its
\* own, and otherwise the dict the last handler returned; an envelope of
\* delete-pool, rename-pool, snapshot-pool and remove-pool-snapshot
\* operations whose commands succeed is answered exactly {exit-code: 0}.
C5_ResultOfCompletedEnvelope ==
    (V1Returned /\ Unknowns = {}) =>
        /\ (reqs["ops"] = <<>> \/ LastResult = None) => v1ret = ("exit-code" :> 0)
        /\ (reqs["ops"] # <<>> /\ LastResult # None) => v1ret = LastResult
        /\ (\A i \in 1..Len(reqs["ops"]) :
                reqs["ops"][i]["op"] \in {"delete-pool", "rename-pool", "snapshot-pool",
                                          "remove-pool-snapshot"})
           => v1ret = ("exit-code" :> 0)

\* two operations of the four pool kinds, both commands succeed
C5_Witness ==
    /\ V1Returned
    /\ Len(invoked) = 2
    /\ reqs["ops"][1]["op"] = "delete-pool"
    /\ reqs["ops"][2]["op"] = "snapshot-pool"
    /\ Len(cmds) = 2
    /\ v1ret = ("exit-code" :> 0)

(***************************************************************************)
(* C6.  When a handler raises, no later operation is executed, what the    *)
(* earlier operations did is kept (nothing is undone while the exception   *)
(* is handled), and the caller gets exit-code 1 with the generic message   *)
(* as an encoded response, not the exception.                              *)
(***************************************************************************)
C6_AtBoundary ==
    (pc = "done" /\ exc # None) =>
        /\ out = JsonV(("exit-code" :> 1) @@ ("stderr" :>
                   StrV("Unexpected error occurred while processing requests: <reqs>")))
        /\ invoked # <<>> =>
              /\ InvokedExactly(Len(invoked))
              /\ LastResult = exc
              /\ \A j \in 1..(Len(invoked) - 1) : ~Has(invoked[j].r, "exc")

C6_EffectsKept ==
    (pc \in {"raised", "responded"}) =>
        UNCHANGED <<cmds, pools, profiles, fsys, groups, services, invoked>>

\* C6: a raised exception ends the envelope with the generic error response,
\* and handling it undoes nothing and runs nothing.
C6_ExceptionCaught == []C6_AtBoundary /\ [][C6_EffectsKept]_vars

\* the first operation deleted pool p, the second one raised
C6_Witness ==
    /\ pc = "done"
    /\ IsV1Envelope
    /\ Len(reqs["ops"]) = 2
    /\ Len(invoked) = 1 + 1
    /\ invoked[1].r = None
    /\ reqs["ops"][1] = DeletePool
    /\ "p" \notin pools
    /\ exc = ExcV("CalledProcessError")
    /\ Field(resp, "exit-code", 1)

(***************************************************************************)
(* C7.  Claim as stated: whenever the envelope carries a request-id, the   *)
(* response of process_requests carries the same request-id, whatever the  *)
(* outcome.                                                                *)
(***************************************************************************)
C7_RequestIdEchoed ==
    (Responded /\ Has(reqs, "request-id")) =>
        Field(resp, "request-id", reqs["request-id"])

(***************************************************************************)
(* C8.  Claim as stated: each of the sixteen known operation tags is       *)
(* dispatched to a handler, so an envelope whose operations all carry      *)
(* known tags is never answered "Unknown operation".                       *)
(***************************************************************************)
C8_KnownTagsDispatched ==
    (/\ V1Returned
     /\ \A i \in 1..Len(reqs["ops"]) :
           Has(reqs["ops"][i], "op") /\ reqs["ops"][i]["op"] \in KnownTags)
    => \A i \in 1..Len(reqs["ops"]) :
           ~Field(v1ret, "stderr",
                  StrV("Unknown operation '" \o reqs["ops"][i]["op"] \o "'"))

(***************************************************************************)
(* C9.  Claim as stated (TestBroker.test_create_cephfs_client): an         *)
(* api-version-1 envelope with a request-id and the single operation       *)
(* create-cephfs-client is answered exit-code 0, with the request-id and   *)
(* the client's key in the field "key".                                    *)
(***************************************************************************)
C9_CephfsClientKey ==
    (/\ pc = "done"
     /\ IsV1Envelope
     /\ Has(reqs, "request-id")
     /\ reqs["ops"] = <<CreateCephfsClient>>)
    => /\ out = JsonV(resp)
       /\ Field(resp, "exit-code", 0)
       /\ Field(resp, "request-id", reqs["request-id"])
       /\ Has(resp, "key")

\* the state-changing storage commands of the operations
StorageCommands ==
    {"osd pool create", "osd pool delete", "osd pool rename", "osd pool mksnap",
     "osd pool rmsnap", "osd pool set", "osd pool set size",
     "osd erasure-code-profile set", "fs new", "fs add_data_pool", "auth caps",
     "radosgw-admin region set", "radosgw-admin zone set",
     "radosgw-admin regionmap update", "radosgw-admin regionmap default",
     "radosgw-admin user create"}

(***************************************************************************)
(* C10.  Claim as stated: when the storage command of an operation (pool   *)
(* create/delete/rename/mksnap/rmsnap/set, erasure-code-profile set, fs    *)
(* new/add_data_pool, auth caps, radosgw-admin) exits non-zero, the        *)
(* envelope response is exit-code 1 with stderr equal to the captured      *)
(* output of that command.  Stated for the last command of a one-operation *)
(* envelope, with the output accepted as bytes or as text.                 *)
(***************************************************************************)
C10_CommandFailureSurfaced ==
    (/\ pc = "done"
     /\ IsV1Envelope
     /\ Len(reqs["ops"]) = 1
     /\ cmds # <<>>
     /\ cmds[Len(cmds)].cmd \in StorageCommands
     /\ cmds[Len(cmds)].rc # 0)
    => /\ out = JsonV(resp)
       /\ Field(resp, "exit-code", 1)
       /\ \/ Field(resp, "stderr", BytesV("output of " \o cmds[Len(cmds)].cmd))
          \/ Field(resp, "stderr", StrV("output of " \o cmds[Len(cmds)].cmd))

(***************************************************************************)
(* C11.  Claim as stated: every result a handler can return is encodable   *)
(* by the envelope codec, and decoding the encoded response gives back the *)
(* result unchanged; this includes error results whose stderr is the       *)
(* captured output of a failed command or the error object of a failed     *)
(* JSON parse in rgw-create-user.                                          *)
(***************************************************************************)
C11_ResponseRoundTrip ==
    (pc = "done" /\ IsV1Envelope /\ exc = None) =>
        /\ Has(out, "json")
        /\ out.json = resp

(***************************************************************************)
(* C17.  Claim as stated: for every pool_size > 0, osd_count >= 0, integer *)
(* percent_data in 1..100 and target 100, with no expected-count override, *)
(* get_pgs equals the reference: 200 when osd_count is 0; otherwise        *)
(* raw = floor(100 * osd_count * percent_data / (100 * pool_size)),        *)
(* clamped up to 2, then the largest power of two n <= raw, giving 2n if   *)
(* (raw - n) > raw * 0.25 and n otherwise.                                 *)
(***************************************************************************)
PgReference(pool_size, percent_data, osd_count) ==
    IF osd_count = 0 THEN 200
    ELSE LET floor == (100 * osd_count * percent_data) \div (100 * pool_size)
             raw == IF floor < 2 THEN 2 ELSE floor
             n == CHOOSE n \in {Pow2(i) : i \in 0..FloorLog2(raw)} :
                     n <= raw /\ 2 * n > raw
         IN  IF 4 * (raw - n) > raw THEN 2 * n ELSE n

C17_GetPgsIsReference ==
    (pc = "returned" /\ reqs.expected = 0) =>
        ret = IntV(PgReference(reqs.pool_size, reqs.percent_data, reqs.osds))

(***************************************************************************)
(* C19.  The capability list of a service is ["mon", <fixed mon string>,   *)
(* "osd", <osd string>]; the osd string joins with ", ", for each          *)
(* permission level in sorted order, for each group granted that level in  *)
(* insertion order, for each pool of the group, "allow <level>             *)
(* pool=<pool>", then for each object-prefix level in sorted order         *)
(* "allow <level> object_prefix <prefix>".  Two services that differ only  *)
(* in the order in which the levels were added get the same list.          *)
(***************************************************************************)
\* the entries of the claim for one level: level is an index of SortedKeys
C19_OfLevel(service, level) ==
    IF SortedKeys[level] \notin OdKeys(service.group_names) THEN <<>>
    ELSE LET granted == OdGet(service.group_names, SortedKeys[level])
         IN  Flatten([g \in 1..Len(granted) |->
                [i \in 1..Len(service.groups[granted[g]].pools) |->
                    "allow " \o SortedKeys[level] \o " pool="
                        \o service.groups[granted[g]].pools[i]]])

C19_OfPrefixLevel(service, level) ==
    IF ~Has(service, "object_prefix_perms")
       \/ SortedKeys[level] \notin OdKeys(service.object_prefix_perms)
    THEN <<>>
    ELSE LET given == OdGet(service.object_prefix_perms, SortedKeys[level])
         IN  [i \in 1..Len(given) |->
                "allow " \o SortedKeys[level] \o " object_prefix " \o given[i]]

C19_Expected(service) ==
    <<"mon",
      "allow r, allow command \"osd blacklist\", allow command \"osd blocklist\"",
      "osd",
      Join(Flatten([l \in 1..Len(SortedKeys) |-> C19_OfLevel(service, l)])
           \o Flatten([l \in 1..Len(SortedKeys) |-> C19_OfPrefixLevel(service, l)]),
           ", ")>>

C19_SameGrants(s, t) ==
    /\ OdKeys(s.group_names) = OdKeys(t.group_names)
    /\ \A k \in OdKeys(s.group_names) : OdGet(s.group_names, k) = OdGet(t.group_names, k)
    /\ s.groups = t.groups
    /\ Has(s, "object_prefix_perms") = Has(t, "object_prefix_perms")
    /\ Has(s, "object_prefix_perms") =>
          /\ OdKeys(s.object_prefix_perms) = OdKeys(t.object_prefix_perms)
          /\ \A k \in OdKeys(s.object_prefix_perms) :
                OdGet(s.object_prefix_perms, k) = OdGet(t.object_prefix_perms, k)

C19_CapabilityList ==
    pc = "returned" =>
        /\ ret = C19_Expected(reqs)
        /\ \A other \in ServiceObjects :
              C19_SameGrants(reqs, other) =>
                  ret = pool_permission_list_for_service(other)

\* two levels added in the order rwx, r: the list starts with the r entries
C19_Witness ==
    /\ pc = "returned"
    /\ Len(reqs.group_names) = 2
    /\ reqs.group_names[1].k = "rwx"
    /\ reqs.group_names[2].k = "r"
    /\ reqs.group_names[2].v = <<"h", "g">>
    /\ Has(reqs, "object_prefix_perms")
    /\ Len(reqs.object_prefix_perms) = 2
    /\ ret[4] = "allow r pool=x, allow r pool=p, allow r pool=q, "
                \o "allow rwx pool=p, allow rwx pool=q, "
                \o "allow r object_prefix b_, allow r object_prefix c_, "
                \o "allow rwx object_prefix a_"

(***************************************************************************)
(* Vocabulary of the traces of PoolSpec and AclSpec: cmds holds the method *)
(* calls and commands of the handler calls made so far, invoked one record *)
(* per handler call.                                                       *)
(***************************************************************************)
IsCall(e, method) == Has(e, "call") /\ e.call = method

IsCommand(e, command) == Has(e, "cmd") /\ e.cmd = command

\* positions in cmds of the calls of method on the pool name during call i
CallsIn(i, method, name) ==
    {n \in 1..Len(cmds) : cmds[n].i = i /\ IsCall(cmds[n], method) /\ cmds[n].pool = name}

CallsOf(method, name) == UNION {CallsIn(i, method, name) : i \in 1..Len(invoked)}

CommandsIn(i, command, name) ==
    {n \in 1..Len(cmds) : cmds[n].i = i /\ IsCommand(cmds[n], command) /\ cmds[n].arg = name}

EventsIn(i) == {n \in 1..Len(cmds) : cmds[n].i = i}

\* calls 1 and 2 are both pool.create() for the pool name
CreatedTwice(name) ==
    /\ Len(invoked) >= 2
    /\ \A i \in {1, 2} : invoked[i].what = "create" /\ invoked[i].req["name"] = name

OnlyCreatePool == \A i \in 1..Len(invoked) : invoked[i].what = "create-pool"

PoolNames == {"r", "e"}

CreateCommands(name) ==
    UNION {CommandsIn(i, "osd pool create", name) : i \in 1..Len(invoked)}

AnsweredCorrectly ==
    \A n \in 1..Len(cmds) :
        IsCall(cmds[n], "pool_exists") =>
            cmds[n].result = (\E k \in 1..(n - 1) :
                                 /\ IsCommand(cmds[k], "osd pool create")
                                 /\ cmds[k].arg = cmds[n].pool
                                 /\ cmds[k].rc = 0)

PoolsAfter(i) == IF i = Len(invoked) THEN pools ELSE invoked[i + 1].before

\* the commands that create or modify a pool
PoolCommands ==
    {"osd pool create", "osd pool set", "osd pool application enable",
     "osd pool set-quota"}

Before(earlier, later) == \A a \in earlier, b \in later : a < b

(***************************************************************************)
(* C14.  When a pool is created from the Absent state the steps run in     *)
(* the order validate, _create, _post_create, update; if validate fails,   *)
(* no storage command that creates or modifies the pool has been issued    *)
(* and the pool stays Absent.                                              *)
(***************************************************************************)
C14_CreationInOrder ==
    \A i \in 1..Len(invoked), name \in PoolNames :
        LET validated == CallsIn(i, "validate", name)
            created == CallsIn(i, "_create", name)
            post == CallsIn(i, "_post_create", name)
            updated == CallsIn(i, "update", name)
        IN  /\ Cardinality(created) <= 1
            /\ Cardinality(post) <= 1
            /\ created # {} => \E v \in validated : Before({v}, created)
            /\ post # {} => created # {} /\ Before(created, post)
            /\ created # {} => Before(created, updated)
            /\ post # {} => Before(post, updated)
            /\ (created # {} /\ invoked[i].r = None) => post # {} /\ updated # {}
            /\ (/\ invoked[i].r = ExcV("ValueError")
                /\ Get(invoked[i].sent, "name", "") = name
                /\ name \notin invoked[i].before) =>
                   /\ validated # {}
                   /\ created = {}
                   /\ \A n \in EventsIn(i) :
                         ~(Has(cmds[n], "cmd") /\ cmds[n].cmd \in PoolCommands)
                   /\ name \notin PoolsAfter(i)

\* a request that validate rejects, then one that creates the pool
C14_Witness ==
    /\ Len(invoked) = 2
    /\ OnlyCreatePool
    /\ invoked[1].r = ExcV("ValueError")
    /\ invoked[1].sent["name"] = "r"
    /\ CallsIn(1, "validate", "r") # {}
    /\ \A n \in EventsIn(1) : ~Has(cmds[n], "cmd")
    /\ "r" \notin invoked[2].before
    /\ invoked[2].r = None
    /\ \E v \in CallsIn(2, "validate", "r"), c \in CallsIn(2, "_create", "r"),
          p \in CallsIn(2, "_post_create", "r"), u \in CallsIn(2, "update", "r") :
          v < c /\ c < p /\ p < u
    /\ "r" \in pools

ProfileNamed(request) == Get(request, "erasure-profile", "default-canonical")

NoProfileMsg(name) ==
    "erasure-profile " \o name
        \o " does not exist.  Please create it with: create-erasure-profile"

\* call i is a create-pool request of type erasure whose profile is missing
MissingProfile(i) ==
    /\ invoked[i].what = "create-pool"
    /\ Get(invoked[i].sent, "pool-type", "") = "erasure"
    /\ ~Has(profiles, ProfileNamed(invoked[i].sent))

NoPoolTouched(i) ==
    \A n \in EventsIn(i) :
        /\ ~IsCall(cmds[n], "__init__")
        /\ ~IsCall(cmds[n], "ErasurePool")
        /\ ~IsCall(cmds[n], "pool_exists")
        /\ ~IsCommand(cmds[n], "osd pool create")

CapApplies(i, g) ==
    /\ invoked[i].what = "create-pool"
    /\ Get(invoked[i].sent, "pool-type", "") # "erasure"
    /\ Get(invoked[i].sent, "pg_num", 0) > 0
    /\ Has(invoked[i].sent, "replicas")
    /\ g \in EventsIn(i)
    /\ IsCall(cmds[g], "get_osds")
    /\ cmds[g].result > 0

(***************************************************************************)
(* C16.  For a replicated create-pool request with an explicit pg_num and  *)
(* a non-empty OSD list, the pg_num seen by the pool model (and left in    *)
(* the request) equals min(requested pg_num, floor(osd_count * 100 /       *)
(* replicas)); it is never larger than the requested value, and the cap is *)
(* applied before the pool object is constructed.                          *)
(***************************************************************************)
C16_PgNumCapped ==
    \A i \in 1..Len(invoked), g \in 1..Len(cmds) :
        CapApplies(i, g) =>
            LET requested == invoked[i].sent["pg_num"]
                limit == (cmds[g].result * 100) \div invoked[i].sent["replicas"]
                capped == IF requested < limit THEN requested ELSE limit
            IN  /\ invoked[i].req["pg_num"] = capped
                /\ invoked[i].req["pg_num"] <= requested
                /\ \E c \in EventsIn(i) :
                      /\ IsCall(cmds[c], "__init__")
                      /\ g < c
                      /\ cmds[c].pg_num = capped
                /\ \A c \in EventsIn(i) :
                      IsCall(cmds[c], "__init__") => cmds[c].pg_num = capped

\* the request of TestBroker.test_replicated_pool with three OSDs, and a
\* request whose pg_num is below the limit
C16_Witness ==
    /\ Len(invoked) = 2
    /\ \E g \in 1..Len(cmds) : CapApplies(1, g) /\ cmds[g].result = 3
    /\ invoked[1].sent["pg_num"] = 4
    /\ invoked[1].sent["replicas"] = 200
    /\ invoked[1].req["pg_num"] = 1
    /\ \E g \in 1..Len(cmds) : CapApplies(2, g) /\ cmds[g].result = 1
    /\ invoked[2].sent["pg_num"] = 64
    /\ invoked[2].req["pg_num"] = 33
    /\ invoked[2].r = None

\* call i grants the service the permission level on the group
Grants(i, service, level, group, namespace) ==
    /\ invoked[i].what = "add-permissions-to-key"
    /\ invoked[i].sent["name"] = service
    /\ invoked[i].sent["group"] = group
    /\ Namespace(invoked[i].sent) = namespace
    /\ Get(invoked[i].sent, "group-permission", "rwx") = level

\* call i is a create-pool request that puts the pool into the group
PutsPool(i, pool, group, namespace) ==
    /\ invoked[i].what = "create-pool"
    /\ invoked[i].sent["name"] = pool
    /\ Get(invoked[i].sent, "group", "") = group
    /\ Namespace(invoked[i].sent) = namespace

\* no command failed and no call raised
AllSucceeded ==
    /\ \A n \in 1..Len(cmds) : Has(cmds[n], "rc") => cmds[n].rc = 0
    /\ \A i \in 1..Len(invoked) : ~Has(invoked[i].r, "exc")

CapsCommands(service) ==
    {n \in 1..Len(cmds) :
        IsCommand(cmds[n], "auth caps") /\ cmds[n].arg = "client." \o service}

Last(positions) == CHOOSE n \in positions : \A m \in positions : m <= n

(***************************************************************************)
(* C18.  After an add-permissions-to-key op granting service S permission  *)
(* level L on group G (with or without a group-namespace N) and a          *)
(* create-pool op that puts pool P into group G (same namespace N), in     *)
(* either order, the last capability-update command issued for client S    *)
(* contains "allow L pool=P" in its osd capability.  The formula is about  *)
(* runs in which every command succeeds; the osd capability is the list    *)
(* "permissions" joined with ", ".                                         *)
(***************************************************************************)
C18_PoolInCaps ==
    \A level \in {"r", "rwx"}, namespace \in {"", "ns"} :
        (/\ Len(invoked) = 2
         /\ AllSucceeded
         /\ \/ Grants(1, "svc", level, "g", namespace) /\ PutsPool(2, "r", "g", namespace)
            \/ PutsPool(1, "r", "g", namespace) /\ Grants(2, "svc", level, "g", namespace)) =>
            /\ CapsCommands("svc") # {}
            /\ ("allow " \o level \o " pool=r")
                  \in Range(cmds[Last(CapsCommands("svc"))].permissions)
            /\ cmds[Last(CapsCommands("svc"))].caps[4]
                  = Join(cmds[Last(CapsCommands("svc"))].permissions, ", ")

NoDuplicates(seq) == \A a, b \in 1..Len(seq) : a # b => seq[a] # seq[b]

\* the arguments of the capability updates of call i after position put
CapsUpdatedAfter(i, put) ==
    LET IsCaps(e) == e.i = i /\ IsCommand(e, "auth caps")
        found == SelectSeq(SubSeq(cmds, put + 1, Len(cmds)), IsCaps)
    IN  [k \in 1..Len(found) |-> found[k].arg]

\* the put at position n is the last successful one for its key
LastPut(n) ==
    \A m \in (n + 1)..Len(cmds) :
        ~(IsCommand(cmds[m], "config-key put") /\ cmds[m].arg = cmds[n].arg /\ cmds[m].rc = 0)

(***************************************************************************)
(* C20.  After any sequence of add_pool_to_group and add-permissions-to-   *)
(* key operations, no persisted group record contains the same pool name   *)
(* twice or the same service name twice and no persisted service record    *)
(* lists the same group twice under one permission level; and each         *)
(* add_pool_to_group call persists the group and then issues one           *)
(* capability update for every service listed in that group.  A call whose *)
(* "config-key put" fails raises and issues no capability update.          *)
(***************************************************************************)
C20_NoDuplicatesCapsPerService ==
    /\ \A g \in DOMAIN groups :
          NoDuplicates(groups[g].pools) /\ NoDuplicates(groups[g].services)
    /\ \A s \in DOMAIN services :
          /\ NoDuplicates([e \in 1..Len(services[s].group_names) |->
                              services[s].group_names[e].k])
          /\ \A e \in 1..Len(services[s].group_names) :
                NoDuplicates(services[s].group_names[e].v)
    /\ \A n \in 1..Len(cmds) :
          IsCall(cmds[n], "add_pool_to_group") =>
              LET i == cmds[n].i
                  put == n + 2
              IN  /\ put <= Len(cmds)
                  /\ cmds[put].i = i
                  /\ IsCommand(cmds[put], "config-key put")
                  /\ cmds[n].pool \in Range(cmds[put].value.pools)
                  /\ NoDuplicates(cmds[put].value.pools)
                  /\ IF cmds[put].rc = 0
                     THEN /\ CapsUpdatedAfter(i, put)
                                = [k \in 1..Len(cmds[put].value.services) |->
                                      "client." \o cmds[put].value.services[k]]
                          /\ LastPut(put) =>
                                \E g \in DOMAIN groups :
                                    /\ cmds[put].arg = "cephx.groups." \o g
                                    /\ groups[g] = cmds[put].value
                     ELSE /\ invoked[i].r = ExcV("CalledProcessError")
                          /\ \A m \in EventsIn(i) : m <= put

\* the same pool is added twice to a group with two services
C20_Witness ==
    /\ Len(invoked) = 2
    /\ \A i \in {1, 2} :
          /\ invoked[i].what = "add_pool_to_group"
          /\ invoked[i].sent["name"] = "r"
          /\ Namespace(invoked[i].sent) = ""
          /\ invoked[i].r = None
          /\ Cardinality({n \in EventsIn(i) : IsCommand(cmds[n], "auth caps")}) = 2
    /\ AllSucceeded
    /\ groups["g"].pools = <<"p", "r">>
    /\ groups["g"].services = <<"svc", "app">>

\* the weight the pool object of the request takes as percent_data
PercentData(request) == IF Get(request, "weight", 0) # 0 THEN request["weight"] ELSE 10

\* call i issues the create command of a replicated pool at position c
ReplicatedCreate(i, c) ==
    /\ invoked[i].what \in {"create-pool", "create"}
    /\ Get(invoked[i].sent, "pool-type", "") # "erasure"
    /\ c \in EventsIn(i)
    /\ IsCommand(cmds[c], "osd pool create")

\* positions of the commands of call i that set the property key of a pool
SetsIn(i, key) ==
    {n \in EventsIn(i) : IsCommand(cmds[n], "osd pool set") /\ cmds[n].key = key}

\* create() of call i ran to its end: its update was entered and nothing
\* raised after it
CreateCompleted(i) ==
    /\ ~Has(invoked[i].r, "exc")
    /\ CallsIn(i, "_create", invoked[i].sent["name"]) # {}

(***************************************************************************)
(* C28.  A replicated pool is always created with a PG count of 32,        *)
(* whatever its percent_data and pg_num hint; its create command carries   *)
(* --bulk exactly when percent_data > 20.0, while post-create sets the     *)
(* bulk property exactly when percent_data >= 20.0, so at the end of       *)
(* create() the pool has bulk set if and only if percent_data >= 20.0.     *)
(***************************************************************************)
C28_ReplicatedCreateCommand ==
    \A i \in 1..Len(invoked), c \in 1..Len(cmds) :
        ReplicatedCreate(i, c) =>
            LET percent_data == PercentData(invoked[i].sent)
            IN  /\ cmds[c].args[1] = "32"
                /\ ("--bulk" \in Range(cmds[c].args)) = (percent_data > 20)
                /\ \A n \in SetsIn(i, "bulk") :
                      percent_data >= 20 /\ cmds[n].value = "true" /\ c < n
                /\ CreateCompleted(i) =>
                      /\ (SetsIn(i, "bulk") # {}) = (percent_data >= 20)
                      /\ (\/ "--bulk" \in Range(cmds[c].args)
                          \/ \E n \in SetsIn(i, "bulk") : cmds[n].rc = 0)
                            = (percent_data >= 20)

\* a weight of exactly 20 with a pg_num hint left out, then a weight of 40:
\* no --bulk on the first create command, bulk set after both
C28_Witness ==
    /\ Len(invoked) = 2
    /\ invoked[1].what = "create"
    /\ PercentData(invoked[1].sent) = 20
    /\ CreateCompleted(1)
    /\ \E c \in EventsIn(1) :
          /\ ReplicatedCreate(1, c)
          /\ cmds[c].args = <<"32">>
          /\ \E n \in SetsIn(1, "bulk") : c < n /\ cmds[n].rc = 0
    /\ invoked[2].what = "delete-pool"
    /\ pools = {}

\* the command at position n sets the application name of a pool or turns
\* its autoscaler on
IsTolerated(n) ==
    \/ IsCommand(cmds[n], "osd pool application enable")
    \/ IsCommand(cmds[n], "osd pool set") /\ cmds[n].key = "pg_autoscale_mode"

\* positions of the commands of call i that failed
FailedIn(i) == {n \in EventsIn(i) : Has(cmds[n], "rc") /\ cmds[n].rc # 0}

\* during call i the application name or the autoscaler command failed,
\* and no other command did
OnlyToleratedFailed(i) ==
    /\ invoked[i].what \in {"create-pool", "create"}
    /\ FailedIn(i) # {}
    /\ \A n \in FailedIn(i) : IsTolerated(n)

(***************************************************************************)
(* C29.  During pool creation a failure of the command that sets the       *)
(* application name, or of the command that turns the autoscaler on, is    *)
(* not fatal: update() still runs, the pool stays created and the          *)
(* create-pool operation reports no error.                                 *)
(***************************************************************************)
C29_PostCreateFailuresTolerated ==
    \A i \in 1..Len(invoked) :
        /\ \A n \in FailedIn(i) :
              IsTolerated(n) =>
                  /\ \E c \in CommandsIn(i, "osd pool create", cmds[n].arg) :
                        c < n /\ cmds[c].rc = 0
                  /\ \E u \in CallsIn(i, "update", cmds[n].arg) : n < u
                  /\ cmds[n].arg \in PoolsAfter(i)
        /\ OnlyToleratedFailed(i) => invoked[i].r = None

\* a create-pool request during which both commands fail
C29_Witness ==
    /\ Len(invoked) = 2
    /\ invoked[1].what = "create-pool"
    /\ Get(invoked[1].sent, "name", "") = "r"
    /\ OnlyToleratedFailed(1)
    /\ Cardinality(FailedIn(1)) = 2
    /\ "r" \in PoolsAfter(1)
    /\ invoked[2].what = "create-pool"
    /\ Get(invoked[2].sent, "name", "") = "e"
    /\ OnlyToleratedFailed(2)
    /\ \E n \in FailedIn(2) : IsCommand(cmds[n], "osd pool set")
    /\ pools = {"r", "e"}

\* the request carries a parameter that validate() rejects
FailsValidation(request) ==
    \E key \in DOMAIN ValidStrings \cap DOMAIN request :
        request[key] \notin ValidStrings[key]

\* the commands that change a property of a pool
PropertyCommands == {"osd pool set", "osd pool set-quota"}

\* positions of the commands of call i that changed a property of the pool
ModifiedIn(i, name) ==
    {n \in EventsIn(i) : /\ \E c \in PropertyCommands : IsCommand(cmds[n], c)
                         /\ cmds[n].arg = name
                         /\ cmds[n].rc = 0}

(***************************************************************************)
(* C30.  update() validates before it changes anything: a create-pool      *)
(* request for a pool that exists already, replicated or erasure, with a   *)
(* parameter that fails validation modifies no property of the pool        *)
(* (size, quota, compression).                                             *)
(***************************************************************************)
C30_UpdateValidatesFirst ==
    \A i \in 1..Len(invoked) :
        (/\ invoked[i].what = "create-pool"
         /\ Has(invoked[i].sent, "name")
         /\ invoked[i].sent["name"] \in invoked[i].before
         /\ FailsValidation(invoked[i].sent))
            => ModifiedIn(i, invoked[i].sent["name"]) = {}

\* the same for erasure pools alone
C30_ErasureUpdateValidatesFirst ==
    \A i \in 1..Len(invoked) :
        (/\ invoked[i].what = "create-pool"
         /\ Get(invoked[i].sent, "pool-type", "") = "erasure"
         /\ Has(invoked[i].sent, "name")
         /\ invoked[i].sent["name"] \in invoked[i].before
         /\ FailsValidation(invoked[i].sent))
            => ModifiedIn(i, invoked[i].sent["name"]) = {}

\* positions of the capability updates of call i that failed
CapsFailedIn(i) ==
    {n \in EventsIn(i) : IsCommand(cmds[n], "auth caps") /\ cmds[n].rc # 0}

\* the successful puts of call i
PutsIn(i) ==
    {n \in EventsIn(i) : IsCommand(cmds[n], "config-key put") /\ cmds[n].rc = 0}

\* the record that the put at position n wrote is the one the key store holds
Persisted(n) ==
    \/ \E g \in DOMAIN groups :
          cmds[n].arg = "cephx.groups." \o g /\ groups[g] = cmds[n].value
    \/ \E s \in DOMAIN services :
          cmds[n].arg = "cephx.services." \o s /\ services[s] = cmds[n].value

\* the result of the operation of call i when nothing is wrong
ResultOf(i) ==
    IF invoked[i].what = "add-permissions-to-key" THEN ExitOk ELSE None

(***************************************************************************)
(* C21.  A failing "auth caps" command never changes the result of the     *)
(* operation that triggered it and never undoes the persisted group or     *)
(* service record: add_pool_to_group still updates the remaining services  *)
(* of the group, add-permissions-to-key still returns exit-code 0 and      *)
(* set-key-permissions yields no error result.                             *)
(***************************************************************************)
C21_CapsFailureTolerated ==
    \A i \in 1..Len(invoked) :
        CapsFailedIn(i) # {} =>
            \* the result is the one of a call without the failure
            /\ invoked[i].what \in {"add_pool_to_group", "add-permissions-to-key",
                                    "set-key-permissions"}
                  => invoked[i].r = ResultOf(i)
            /\ (invoked[i].what = "create-pool" /\ FailedIn(i) = CapsFailedIn(i))
                  => invoked[i].r = None
            \* every service of the group gets its update, failed or not
            /\ \A a \in EventsIn(i) :
                  IsCall(cmds[a], "add_pool_to_group") =>
                      CapsUpdatedAfter(i, a + 2)
                          = [k \in 1..Len(cmds[a + 2].value.services) |->
                                "client." \o cmds[a + 2].value.services[k]]
            \* what the call has put is what the key store holds
            /\ \A n \in PutsIn(i) : LastPut(n) => Persisted(n)

\* add_pool_to_group with the capability updates of both services failing,
\* then add-permissions-to-key with its capability update failing
C21_Witness ==
    /\ Len(invoked) = 2
    /\ invoked[1].what = "add_pool_to_group"
    /\ Cardinality(CapsFailedIn(1)) = 2
    /\ invoked[1].r = None
    /\ invoked[2].what = "add-permissions-to-key"
    /\ Cardinality(CapsFailedIn(2)) = 1
    /\ invoked[2].r = ExitOk
    /\ PutsIn(1) # {} /\ Cardinality(PutsIn(2)) = 2
    /\ "r" \in Range(groups["g"].pools)
    /\ Has(services, "svc")

\* the profiles of the cluster after call i
ProfilesAfter(i) == IF i = Len(invoked) THEN profiles ELSE invoked[i + 1].known

\* positions of the profile-set commands for the name, all calls together
ProfileSets(name) ==
    {n \in 1..Len(cmds) :
        IsCommand(cmds[n], "osd erasure-code-profile set") /\ cmds[n].arg = name}

SucceededSets(name) == {n \in ProfileSets(name) : cmds[n].rc = 0}

First(positions) == CHOOSE n \in positions : \A m \in positions : n <= m

ProfileNames == {"x", "y"}

\* call i is a create-erasure-profile for the name
CreatesProfile(i, name) ==
    /\ invoked[i].what = "create-erasure-profile"
    /\ Get(invoked[i].sent, "name", "") = name

\* every existence query of call i answered what the cluster holds
ProfileAnsweredCorrectly(i) ==
    \A n \in EventsIn(i) :
        IsCommand(cmds[n], "osd erasure-code-profile get") =>
            (cmds[n].rc = 0) = Has(invoked[i].known, cmds[n].arg)

C23_DefaultPlugin ==
    \A i \in 1..Len(invoked) :
        (invoked[i].what = "create-erasure-profile"
         /\ ~Has(invoked[i].sent, "erasure-type")) =>
            \A n \in EventsIn(i) :
                IsCommand(cmds[n], "osd erasure-code-profile set") =>
                    "plugin=jerasure" \in Range(cmds[n].args)

\* the operations of delivery i that are create-pool requests reached by
\* the loop
HandledOps(i) ==
    {k \in 1..Len(invoked[i].sent["ops"]) :
        \E n \in EventsIn(i) : IsCall(cmds[n], "fn") /\ cmds[n].k = k}

\* the keys a create-pool request needs and lacks
MissingKeys(request) ==
    {key \in {"name"} \cup (IF Get(request, "pool-type", "") = "erasure" THEN {}
                            ELSE {"replicas"}) : ~Has(request, key)}

\* the keys of the request that fail validation
InvalidKeys(request) ==
    {key \in DOMAIN ValidStrings \cap DOMAIN request : request[key] \notin ValidStrings[key]}

\* the text names the key: the message of the except branch renders the
\* envelope with all its keys, any other message is a fixed string
NamesKey(stderr, key) ==
    /\ Has(stderr, "reqs")
    /\ \E k \in 1..Len(stderr.reqs["ops"]) : Has(stderr.reqs["ops"][k], key)

(***************************************************************************)
(* C24.  A create-pool op with a parameter that fails validation, and a    *)
(* create-pool op that lacks a required key (name, or replicas for a       *)
(* replicated pool), each make the envelope response exit-code 1 with a    *)
(* stderr that names the offending key.  Stated for envelopes of one       *)
(* operation.                                                              *)
(***************************************************************************)
C24_ErrorNamesKey ==
    \A i \in 1..Len(invoked) :
        (/\ invoked[i].what = "process_requests"
         /\ Len(invoked[i].sent["ops"]) = 1
         /\ invoked[i].sent["ops"][1]["op"] = "create-pool") =>
            LET request == invoked[i].sent["ops"][1]
                offending == MissingKeys(request) \cup InvalidKeys(request)
            IN  offending # {} =>
                    /\ invoked[i].r["exit-code"] = 1
                    /\ \E key \in offending : NamesKey(invoked[i].r["stderr"], key)

\* the same without the text: the response has exit-code 1
C24_ErrorExitCode ==
    \A i \in 1..Len(invoked) :
        (/\ invoked[i].what = "process_requests"
         /\ Len(invoked[i].sent["ops"]) = 1
         /\ invoked[i].sent["ops"][1]["op"] = "create-pool") =>
            LET request == invoked[i].sent["ops"][1]
                offending == MissingKeys(request) \cup InvalidKeys(request)
            IN  offending # {} => invoked[i].r["exit-code"] = 1

\* the cluster before delivery i
ClusterBefore(i) ==
    [pools |-> invoked[i].before, profiles |-> invoked[i].known,
     groups |-> invoked[i].acl.groups, services |-> invoked[i].acl.services]

\* the cluster now
ClusterNow ==
    [pools |-> pools, profiles |-> profiles, groups |-> groups, services |-> services]

\* the envelope has been delivered twice, and no command failed but the
\* queries for profiles that do not exist
DeliveredTwice ==
    /\ Len(invoked) = 2
    /\ \A i \in {1, 2} : invoked[i].what = "process_requests"
    /\ invoked[2].sent = invoked[1].sent
    /\ \A n \in 1..Len(cmds) :
          (Has(cmds[n], "rc") /\ cmds[n].rc # 0) =>
              /\ IsCommand(cmds[n], "osd erasure-code-profile get")
              /\ ~Has(invoked[cmds[n].i].known, cmds[n].arg)

(***************************************************************************)
(* C25.  Redundant delivery is safe: for every envelope made of            *)
(* create-pool, create-erasure-profile and add-permissions-to-key          *)
(* operations, processing the envelope twice in a row leaves the cluster   *)
(* state (pools, profiles, group records, service records) equal to the    *)
(* state after processing it once, and the second processing returns the   *)
(* same exit-code.  Stated for deliveries in which no command fails.       *)
(***************************************************************************)
C25_RedeliveryIsSafe ==
    DeliveredTwice =>
        /\ ClusterNow = ClusterBefore(2)
        /\ invoked[2].r["exit-code"] = invoked[1].r["exit-code"]

\* operation k of delivery i returned, and no error result
Succeeded(i, k) ==
    \E n \in EventsIn(i) :
        /\ IsCall(cmds[n], "ret")
        /\ cmds[n].k = k
        /\ cmds[n].r # None => cmds[n].r["exit-code"] = 0

\* the same for the envelopes whose operations all succeed in the first
\* delivery
C25_CleanRedeliveryIsSafe ==
    (/\ DeliveredTwice
     /\ \A k \in 1..Len(invoked[1].sent["ops"]) : Succeeded(1, k)) =>
        /\ ClusterNow = ClusterBefore(2)
        /\ invoked[2].r["exit-code"] = invoked[1].r["exit-code"]

\* the position in cmds of the mark of delivery i, operation k
Mark(i, k, what) ==
    {n \in EventsIn(i) : IsCall(cmds[n], what) /\ cmds[n].k = k}

\* no command of delivery i failed but the queries for missing profiles
NoFailureIn(i) ==
    \A n \in EventsIn(i) :
        (Has(cmds[n], "rc") /\ cmds[n].rc # 0) =>
            IsCommand(cmds[n], "osd erasure-code-profile get")

\* a command of delivery i before position n succeeded
DoneBefore(i, n, command, name) ==
    \E c \in CommandsIn(i, command, name) : c < n /\ cmds[c].rc = 0

ProfileThenPool ==
    <<ProfileBase("x", "jerasure"), ErasureRequest @@ ("erasure-profile" :> "x")>>

PoolThenProfile ==
    <<ErasureRequest @@ ("erasure-profile" :> "x"), ProfileBase("x", "jerasure")>>

(***************************************************************************)
(* C26.  Operations of one envelope are executed strictly one after the    *)
(* other in list order, each starting only after the previous one          *)
(* returned: an operation sees all effects of the operations before it     *)
(* and none of the operations after it.  In [create-erasure-profile X,     *)
(* create-pool erasure with profile X] the pool creation finds profile X;  *)
(* in the reverse order it does not.                                       *)
(***************************************************************************)
C26_OpsInListOrder ==
    \A i \in 1..Len(invoked) :
        invoked[i].what = "process_requests" =>
            LET ops == invoked[i].sent["ops"]
            IN  \* handler k is entered once, after handler k - 1 returned, and
                \* every event of the delivery lies within one handler
                /\ \A k \in 1..Len(ops) :
                      /\ Cardinality(Mark(i, k, "fn")) <= 1
                      /\ Cardinality(Mark(i, k, "ret")) <= 1
                      /\ Before(Mark(i, k, "fn"), Mark(i, k, "ret"))
                      /\ Mark(i, k, "ret") # {} => Mark(i, k, "fn") # {}
                      /\ \A n \in Mark(i, k, "fn") : cmds[n].op = ops[k]["op"]
                      /\ k > 1 =>
                            /\ Before(Mark(i, k - 1, "ret"), Mark(i, k, "fn"))
                            /\ Mark(i, k, "fn") # {} => Mark(i, k - 1, "ret") # {}
                \* what an existence query answers is what the cluster held
                \* before the delivery and what the delivery did before the query
                /\ NoFailureIn(i) =>
                      \A n \in EventsIn(i) :
                          /\ IsCall(cmds[n], "pool_exists") =>
                                cmds[n].result
                                    = (\/ cmds[n].pool \in invoked[i].before
                                       \/ DoneBefore(i, n, "osd pool create", cmds[n].pool))
                          /\ IsCommand(cmds[n], "osd erasure-code-profile get") =>
                                (cmds[n].rc = 0)
                                    = (\/ Has(invoked[i].known, cmds[n].arg)
                                       \/ DoneBefore(i, n, "osd erasure-code-profile set",
                                                     cmds[n].arg))
                \* the example, on a cluster without profile x
                /\ (NoFailureIn(i) /\ ~Has(invoked[i].known, "x")) =>
                      /\ ops = ProfileThenPool =>
                            /\ CommandsIn(i, "osd pool create", "e") # {}
                            /\ "e" \in PoolsAfter(i)
                            /\ invoked[i].r["exit-code"] = 0
                      /\ ops = PoolThenProfile =>
                            /\ CommandsIn(i, "osd pool create", "e") = {}
                            /\ "e" \notin PoolsAfter(i)
                            /\ \A n \in Mark(i, 1, "ret") :
                                  cmds[n].r # None /\ cmds[n].r["exit-code"] = 1
                            /\ Has(ProfilesAfter(i), "x")

\* the profile and then the pool: the pool is created
C26_Witness ==
    /\ Len(invoked) = 1
    /\ invoked[1].sent["ops"] = ProfileThenPool
    /\ NoFailureIn(1)
    /\ pools = {"e"}
    /\ Has(profiles, "x")
    /\ \E s \in CommandsIn(1, "osd erasure-code-profile set", "x"),
          c \in CommandsIn(1, "osd pool create", "e") : s < c

\* the pool and then the profile: the profile is there, the pool is not
C26_ReverseReached ==
    /\ Len(invoked) = 1
    /\ invoked[1].sent["ops"] = PoolThenProfile
    /\ NoFailureIn(1)
    /\ pools = {}
    /\ Has(profiles, "x")

\* call i is a get_named_key that returned a key
ReturnedKey(i) ==
    /\ invoked[i].what = "get_named_key"
    /\ ~Has(invoked[i].r, "exc")

(***************************************************************************)
(* C27.  The memoized auth-key lookup is invalidated on every write:       *)
(* within one process, after any sequence of get_named_key (which may      *)
(* create the key) and remove_named_key calls, get_named_key never         *)
(* returns a key that has been removed and not re-created, and never       *)
(* reports a key as absent after it was created.                           *)
(***************************************************************************)
C27_NoStaleKey ==
    \A i \in 1..Len(invoked) :
        ReturnedKey(i) =>
            /\ invoked[i].r # None
            /\ Has(invoked[i].after, invoked[i].name)
            /\ invoked[i].r = IntV(invoked[i].after[invoked[i].name])

\* the second half alone: get_named_key that returns, returns a key
C27_NeverAbsent ==
    \A i \in 1..Len(invoked) : ReturnedKey(i) => invoked[i].r # None

(***************************************************************************)
(* C31.  A create-pool operation that returns an error result leaves the   *)
(* ACL store as it was.                                                    *)
(***************************************************************************)
\* the key store after call i
AclAfter(i) ==
    IF i = Len(invoked) THEN [groups |-> groups, services |-> services]
    ELSE invoked[i + 1].acl

\* positions of the key-store writes and capability updates of call i
AclCommandsIn(i) ==
    {n \in EventsIn(i) : IsCommand(cmds[n], "config-key put")
                            \/ IsCommand(cmds[n], "auth caps")}

\* C31: a create-pool operation that returns an error result (the erasure
\* profile does not exist, or "Missing parameter.") writes no group record
\* and issues no capability update, even when the request names a group
C31_ErrorLeavesAclUnchanged ==
    \A i \in 1..Len(invoked) :
        (invoked[i].what = "create-pool" /\ IsErrorResult(invoked[i].r))
            => /\ AclAfter(i) = invoked[i].acl
               /\ AclCommandsIn(i) = {}

\* a create-pool operation that names no group leaves the ACL store as it
\* was, whatever it returns
C31_NoGroupNoAclChange ==
    \A i \in 1..Len(invoked) :
        (invoked[i].what = "create-pool" /\ ~Has(invoked[i].sent, "group"))
            => /\ AclAfter(i) = invoked[i].acl
               /\ AclCommandsIn(i) = {}

(***************************************************************************)
(* C32.  The plugin parameters of a create-erasure-profile request reach   *)
(* the profile-set command under their own names.                          *)
(***************************************************************************)
\* the profile-set command at position n carries key=<the request's value>
Carries(n, request, key) ==
    (key \o "=" \o ToString(request[key])) \in Range(cmds[n].args)

\* positions of the profile-set commands of call i
ProfileSetsIn(i) ==
    {n \in EventsIn(i) : IsCommand(cmds[n], "osd erasure-code-profile set")}

\* C32: with plugin shec and request parameter c = v the profile-set
\* command contains c=v, with plugin clay and request parameter d = v it
\* contains d=v, and the request's k and m appear as k=<k> and m=<m>
C32_ParametersUnderOwnNames ==
    \A i \in 1..Len(invoked) :
        invoked[i].what = "create-erasure-profile" =>
            LET request == invoked[i].sent
                type == Get(request, "erasure-type", "")
            IN  \A n \in ProfileSetsIn(i) :
                    /\ (type = "shec" /\ Given(request, "c")) => Carries(n, request, "c")
                    /\ (type = "clay" /\ Given(request, "d")) => Carries(n, request, "d")
                    /\ Has(request, "k") => Carries(n, request, "k")
                    /\ Has(request, "m") => Carries(n, request, "m")

\* the chunk counts of the request appear as k=<k> and m=<m>, and the
\* locality of an lrc request as l=<l>
C32_ChunkCounts ==
    \A i \in 1..Len(invoked) :
        invoked[i].what = "create-erasure-profile" =>
            LET request == invoked[i].sent
            IN  \A n \in ProfileSetsIn(i) :
                    /\ Has(request, "k") => Carries(n, request, "k")
                    /\ Has(request, "m") => Carries(n, request, "m")
                    /\ (Get(request, "erasure-type", "") = "lrc" /\ Given(request, "l"))
                          => Carries(n, request, "l")

(***************************************************************************)
(* C33.  ErasurePool creation fails with PoolCreationError, without the    *)
(* pool-create command, when the named profile cannot be read or lacks k   *)
(* or m; otherwise the create command is sized from k + m.                 *)
(***************************************************************************)
\* call i is create() of an erasure pool and reached _create
ErasureCreate(i) ==
    /\ invoked[i].what = "create"
    /\ Get(invoked[i].sent, "pool-type", "") = "erasure"
    /\ CallsIn(i, "_create", invoked[i].sent["name"]) # {}

\* positions of the reads of the erasure profile during call i
ProfileReadsIn(i) == {n \in EventsIn(i) : IsCall(cmds[n], "get_erasure_profile")}

\* the number of OSDs that call i was told
OsdsIn(i) ==
    LET n == CHOOSE n \in EventsIn(i) : IsCall(cmds[n], "get_osds") IN cmds[n].result

\* C33: creation of an erasure pool fails with PoolCreationError, and
\* issues no pool-create command, when the named profile cannot be read or
\* lacks k or m; otherwise it does not fail that way, and a create command
\* carries pgs = get_pgs(k + m, percent_data) as pg and as pgp count and a
\* pg-num-min of min(32, pgs)
C33_ErasureCreation ==
    \A i \in 1..Len(invoked) :
        ErasureCreate(i) =>
            LET name == invoked[i].sent["name"]
                profile == Get(invoked[i].sent, "erasure-profile", "default-canonical")
                known == invoked[i].known
                creates == CommandsIn(i, "osd pool create", name)
            IN  /\ Cardinality(ProfileReadsIn(i)) = 1
                /\ \A n \in ProfileReadsIn(i) : cmds[n].profile = profile
                /\ IF \/ \E n \in ProfileReadsIn(i) : ~cmds[n].found
                      \/ ~Has(known, profile)
                      \/ ~({"k", "m"} \subseteq DOMAIN known[profile])
                   THEN invoked[i].r = ExcV("PoolCreationError") /\ creates = {}
                   ELSE /\ invoked[i].r # ExcV("PoolCreationError")
                        /\ \A c \in creates :
                              LET pgs == get_pgs(int(known[profile].k)
                                                     + int(known[profile].m),
                                                 PercentData(invoked[i].sent),
                                                 OsdsIn(i), 0)
                              IN  cmds[c].args =
                                      <<"--pg-num-min=" \o ToString(Min(32, pgs)),
                                        ToString(pgs), ToString(pgs), "erasure", profile>>

\* a pool on a profile without m fails with PoolCreationError and no create
\* command; then a pool of weight 100 on the profile ec (k = 2, m = 1) is
\* created on three OSDs with 128 placement groups and a pg-num-min of 32
C33_Witness ==
    /\ Len(invoked) = 2
    /\ ErasureCreate(1)
    /\ Get(invoked[1].sent, "erasure-profile", "") = "nom"
    /\ invoked[1].r = ExcV("PoolCreationError")
    /\ CommandsIn(1, "osd pool create", "e") = {}
    /\ ErasureCreate(2)
    /\ PercentData(invoked[2].sent) = 100
    /\ \E c \in CommandsIn(2, "osd pool create", "e") :
          /\ cmds[c].rc = 0
          /\ cmds[c].args = <<"--pg-num-min=32", "128", "128", "erasure", "ec">>
    /\ "e" \in pools

(***************************************************************************)
(* C34.  With at least one OSD found, get_pgs returns a power of two that  *)
(* is at least 2; and when raw = floor(target * osd_count * percent_data   *)
(* / (100 * pool_size)) is at least 2, the result r satisfies              *)
(* 0.75 * raw <= r < 1.5 * raw and is non-decreasing in osd_count and in   *)
(* percent_data and non-increasing in pool_size.                           *)
(***************************************************************************)
IsPowerOfTwo(n) == n >= 1 /\ Pow2(FloorLog2(n)) = n

\* get_pgs has returned for a cluster on which an OSD was found
PgReturned == pc = "returned" /\ reqs.osds >= 1

\* raw of the claim, for the OSD count that the calculation uses
PgRaw ==
    (DEFAULT_PGS_PER_OSD_TARGET * OsdCount(reqs.osds, reqs.expected) * reqs.percent_data)
        \div (100 * reqs.pool_size)

\* the result is a power of two and at least 2
C34_PowerOfTwo == PgReturned => IsPowerOfTwo(ret.int) /\ ret.int >= 2

\* 0.75 * raw <= r < 1.5 * raw
C34_WithinTolerance ==
    (PgReturned /\ PgRaw >= 2) => 3 * PgRaw <= 4 * ret.int /\ 2 * ret.int < 3 * PgRaw

\* one more OSD or one more percent never gives fewer placement groups, and
\* one more replica never gives more
C34_Monotone ==
    (PgReturned /\ PgRaw >= 2) =>
        /\ ret.int <= get_pgs(reqs.pool_size, reqs.percent_data, reqs.osds + 1,
                              reqs.expected)
        /\ reqs.percent_data < 100 =>
              ret.int <= get_pgs(reqs.pool_size, reqs.percent_data + 1, reqs.osds,
                                 reqs.expected)
        /\ ret.int >= get_pgs(reqs.pool_size + 1, reqs.percent_data, reqs.osds,
                              reqs.expected)

\* C34: whenever at least one OSD is found, the value returned by get_pgs
\* is a power of two and at least 2; when raw is at least 2 it lies in
\* [0.75 * raw, 1.5 * raw) and is monotone in its three arguments
C34_GetPgsBounds == C34_PowerOfTwo /\ C34_WithinTolerance /\ C34_Monotone

(***************************************************************************)
(* C35.  The capabilities with which get_named_key creates a key depend    *)
(* only on the arguments of that call; the module's default capabilities   *)
(* are never modified.                                                     *)
(***************************************************************************)
\* positions of the key creations
Creations == {n \in 1..Len(cmds) : IsCommand(cmds[n], "auth get-or-create")}

\* the arguments of the get_named_key call that issued the command at n
ArgumentsOf(n) ==
    LET e == CHOOSE e \in 1..Len(cmds) :
                 cmds[e].i = cmds[n].i /\ IsCall(cmds[e], "get_named_key")
    IN  [caps |-> cmds[e].caps, pool_list |-> cmds[e].pool_list]

\* the osd capability of the creation at n: what follows "osd" in the command
OsdCapability(n) ==
    LET at == CHOOSE at \in 1..Len(cmds[n].caps) : cmds[n].caps[at] = "osd"
    IN  cmds[n].caps[at + 1]

\* C35: two creations with the same caps and pool_list carry the same
\* capabilities, the module-level default capability set is never modified,
\* and a key created with default caps and no pool_list gets the osd
\* capability "allow rwx"
C35_CapsDependOnArguments ==
    /\ default_caps = DefaultCaps
    /\ \A n \in Creations, m \in Creations :
          ArgumentsOf(n) = ArgumentsOf(m) => cmds[n].caps = cmds[m].caps
    /\ \A n \in Creations :
          ArgumentsOf(n) = [caps |-> <<>>, pool_list |-> <<>>]
              => OsdCapability(n) = "allow rwx"

\* with capabilities of the caller's own, they reach the command as given,
\* extended by the pools of the call
C35_OwnCapsAsGiven ==
    \A n \in Creations :
        ArgumentsOf(n).caps # <<>> =>
            cmds[n].caps = CapsArguments(Extended(ArgumentsOf(n).caps,
                                                  ArgumentsOf(n).pool_list))

\* as long as no call combined the default capabilities with a pool list,
\* the defaults are as the module defines them
C35_DefaultsKeptWithoutPools ==
    (\A n \in Creations : ArgumentsOf(n).caps # <<>> \/ ArgumentsOf(n).pool_list = <<>>)
        => default_caps = DefaultCaps

(***************************************************************************)
(* C36.  A create-cephfs operation that reports success has left the       *)
(* filesystem in place with every pool of extra_pools as a data pool.      *)
(***************************************************************************)
\* the request of the j-th handler call
RequestOf(j) == reqs["ops"][invoked[j].i]

\* the j-th handler call is a create-cephfs that returned no error result
CephfsSucceeded(j) ==
    /\ Tag(RequestOf(j)) = "create-cephfs"
    /\ invoked[j].r = None

\* the filesystem of the request exists and holds its extra pools
CephfsComplete(request) ==
    /\ Has(fsys, request["mds_name"])
    /\ Range(Get(request, "extra_pools", <<>>)) \subseteq fsys[request["mds_name"]]

\* C36: whenever a create-cephfs operation reports success, the filesystem
\* exists and every pool of extra_pools is one of its data pools, also when
\* the same request comes again after a delivery that failed part-way
C36_CephfsSuccessMeansComplete ==
    (pc # "idle" /\ IsV1Envelope) =>
        \A j \in 1..Len(invoked) : CephfsSucceeded(j) => CephfsComplete(RequestOf(j))

\* the first create-cephfs operation that reaches a cluster without the
\* filesystem has left it complete when it reports success
C36_CreatingCallComplete ==
    (pc # "idle" /\ IsV1Envelope) =>
        \A j \in 1..Len(invoked) :
            (/\ CephfsSucceeded(j)
             /\ \A k \in 1..(j - 1) : Tag(RequestOf(k)) # "create-cephfs")
                => CephfsComplete(RequestOf(j))

(***************************************************************************)
(* C37.  The operations that run one command behind a parameter check:     *)
(* without a required parameter no command runs and the result is an       *)
(* error; with all of them the command runs once and the result tells      *)
(* whether it failed.                                                      *)
(***************************************************************************)
\* the parameters each of the operations requires
RequiredParameters ==
    ("create-cephfs" :> {"mds_name", "data_pool", "metadata_pool"})
    @@ ("rgw-region-set" :> {"region-json", "client-name", "region-name", "zone-name"})
    @@ ("rgw-zone-set" :> {"zone-json", "client-name", "region-name", "zone-name"})
    @@ ("rgw-regionmap-update" :> {"client-name"})
    @@ ("rgw-regionmap-default" :> {"rgw-region", "client-name"})
    @@ ("rgw-create-user" :> {"client-name", "display-name", "rgw-uid"})
    @@ ("move-osd-to-bucket" :> {"osd", "bucket"})

\* process_requests_v1 has returned from an envelope of one operation
OneOperationDone ==
    /\ pc = "v1_returned"
    /\ IsV1Envelope
    /\ Len(reqs["ops"]) = 1

\* what the claim says of the one operation, given what it requires
CheckedThenRun(required) ==
    IF ~(required \subseteq DOMAIN reqs["ops"][1])
    THEN IsErrorResult(v1ret) /\ cmds = <<>>
    ELSE /\ Len(cmds) = 1
         /\ (cmds[1].rc # 0) = IsErrorResult(v1ret)

\* C37: for create-cephfs, rgw-region-set, rgw-zone-set,
\* rgw-regionmap-update, rgw-regionmap-default, rgw-create-user and
\* move-osd-to-bucket, a request that lacks a required parameter returns
\* exit-code 1 and runs no command; with all parameters the command runs
\* once, and the result is an error result exactly when it failed
C37_CheckedCommands ==
    (OneOperationDone /\ Tag(reqs["ops"][1]) \in DOMAIN RequiredParameters)
        => CheckedThenRun(RequiredParameters[Tag(reqs["ops"][1])])

\* the same for the operations whose handler does nothing but check the
\* parameters and run its command, under the tags the jump table knows
C37_PlainCommands ==
    /\ (OneOperationDone
        /\ Tag(reqs["ops"][1]) \in {"rgw-region-set", "rgw-zone-set",
                                    "rgw-regionmap-update"})
          => CheckedThenRun(RequiredParameters[Tag(reqs["ops"][1])])
    /\ (OneOperationDone /\ Tag(reqs["ops"][1]) = "reg-regionmap-default")
          => CheckedThenRun(RequiredParameters["rgw-regionmap-default"])

(***************************************************************************)
(* The relation hooks of the provider (RelationSpec).                      *)
(***************************************************************************)
\* the response key of a client unit
KeyOf(unit) == ResponseKey(Dashed(UnitNameOf(relation_data[unit], unit)))

\* this unit has published a response that carries the request-id of the
\* request the client unit still has in its bag
Answered(unit) ==
    /\ Has(relation_data[unit], "broker_req")
    /\ _get_broker_req_id(relation_data[unit]["broker_req"]) # None
    /\ Has(relation_data[ThisUnit], KeyOf(unit))
    /\ Has(relation_data[ThisUnit][KeyOf(unit)].json, "request-id")
    /\ relation_data[ThisUnit][KeyOf(unit)].json["request-id"]
          = _get_broker_req_id(relation_data[unit]["broker_req"]).str

\* C38: a broker request is handled at most once: once this unit has
\* published a response carrying request-id R for a client unit, no step
\* taken while the client unit still carries the request with id R invokes
\* process_requests again
C38_HandledAtMostOnce ==
    [][(\A unit \in ClientUnits : Answered(unit)) => invoked' = invoked]_vars

\* where the responses are: the bag of a client unit never holds a response
\* key, the bag of this unit holds the response of the latest call, and
\* _stored.processed lists the id of every call in order
C38_ResponseOnlyInOwnBag ==
    /\ \A unit \in ClientUnits : ~Has(relation_data[unit], KeyOf(unit))
    /\ invoked # <<>> =>
          \A unit \in ClientUnits :
              relation_data[ThisUnit][KeyOf(unit)] = JsonV(invoked[Len(invoked)].r)
    /\ processed = [n \in 1..Len(invoked) |-> invoked[n].sent["request-id"]]

====
